---- MODULE Spec2Model ----
(***************************************************************************)
(* Deterministic YAML: the restricted-grammar parser                       *)
(* (lib/restricted_yaml_parser.py), the annotation converter               *)
(* (dyaml/core/converter.py), the canonical serializer and the validator.  *)
(*                                                                         *)
(* Text is a sequence of characters; a character is a one-character        *)
(* string.  A Value is a tagged record:                                    *)
(*   [t |-> "null"], [t |-> "bool", b |-> BOOLEAN], [t |-> "int", i |-> n],*)
(*   [t |-> "str", s |-> chars], [t |-> "map", es |-> <<[k, v], ...>>]     *)
(*   (entries in insertion order, as a Python dict keeps them),            *)
(*   [t |-> "seq", xs |-> <<v, ...>>].                                     *)
(***************************************************************************)
EXTENDS Integers, Sequences, FiniteSets, TLC

VARIABLES
  pc,       \* where the run is: "idle", "decoded", "text", "parsed",
            \* "reserialized", "scan", "validated"
  origin,   \* what the text was made from: "none", "token", "value", "text"
  val,      \* the Value given to the serializer
  text,     \* the text at hand (a scalar token, serializer output or raw input)
  lines,    \* self.lines of the parser, or the physical lines the validator scans
  pos,      \* self.pos of the parser after parse()
  result,   \* the Value returned by the parser
  out,      \* the text of serializing result again
  vstrict,  \* the validator's strict flag
  vline,    \* number of lines the validator has scanned
  errors,   \* error findings so far
  warnings, \* warning findings so far
  seen,     \* indentation levels whose open mapping has shown a non-reserved key
  vres,     \* the ValidationResult
  anns,     \* the list of comments given to the converter
  merged,   \* the tree returned by add_human_fields
  plain,    \* the tree returned by strip_human_fields
  files,    \* the files given to the validate command
  strict,   \* its --strict flag
  all_valid, \* its all_valid flag
  results,  \* its results list: one (file, result or None) per file processed
  exit_code, \* its exit status, -1 while it runs
  inst,     \* two parser invocations: text, stage, control point, call stack, result
  heap,     \* the attributes self.lines and self.pos, by the object that holds them
  job,      \* a converter invocation run alongside: tree, comments, stage, results
  base,     \* the text that the text at hand was derived from
  json_output, \* the --json flag of the validate command
  printed,  \* what the validate command printed as JSON, NoOutput before that
  cmd,      \* the convert command: inputs, output, in_place and the branch taken
  disk,     \* the file system: the directories and the files with their data
  written,  \* the outputs of the convert command so far: (input, target)
  done      \* number of inputs the convert command has processed

vars == <<pc, origin, val, text, lines, pos, result, out,
          vstrict, vline, errors, warnings, seen, vres, anns, merged, plain,
          files, strict, all_valid, results, exit_code, inst, heap, job, base,
          json_output, printed, cmd, disk, written, done>>

\* The state of the parser, the serializer and the validator.
textVars == <<text, lines, pos, result, out, vstrict, vline, errors, warnings, seen, vres,
              base>>

\* The state of the converter.
convVars == <<anns, merged, plain>>

\* The state that the parser, serializer and validator steps leave alone.
\* The state of the validate command.
cliVars == <<files, strict, all_valid, results, exit_code, json_output, printed>>

\* The state of the convert command.
cmdVars == <<cmd, disk, written, done>>

\* The state of the invocations run side by side.
concVars == <<inst, heap, job>>

extVars == <<convVars, cliVars, concVars, base, cmdVars>>

----------------------------------------------------------------------------
(* Characters *)

Digits == <<"0", "1", "2", "3", "4", "5", "6", "7", "8", "9">>

DigitChars == {Digits[i] : i \in 1..10}

UpperChars == {"A", "B", "C", "D", "E", "F", "G", "H", "I", "J", "K", "L", "M",
               "N", "O", "P", "Q", "R", "S", "T", "U", "V", "W", "X", "Y", "Z"}

LowerChars == {"a", "b", "c", "d", "e", "f", "g", "h", "i", "j", "k", "l", "m",
               "n", "o", "p", "q", "r", "s", "t", "u", "v", "w", "x", "y", "z"}

\* The character class [A-Za-z0-9_] of IDENT_PATTERN.
IdentChars == UpperChars \cup LowerChars \cup DigitChars \cup {"_"}

\* What str.strip(), str.lstrip() and the regex class \s remove.
SpaceChars == {" ", "\t", "\n", "\r"}

\* The printable ASCII characters the model uses, in byte order.
Ascii ==
  <<" ", "!", "\"", "#", "$", "%", "&", "(", ")", "*", "+", ",", "-", ".", "/",
    "0", "1", "2", "3", "4", "5", "6", "7", "8", "9", ":", ";", "<", "=", ">", "?",
    "@", "A", "B", "C", "D", "E", "F", "G", "H", "I", "J", "K", "L", "M", "N", "O",
    "P", "Q", "R", "S", "T", "U", "V", "W", "X", "Y", "Z", "[", "\\", "]", "^", "_",
    "a", "b", "c", "d", "e", "f", "g", "h", "i", "j", "k", "l", "m", "n", "o",
    "p", "q", "r", "s", "t", "u", "v", "w", "x", "y", "z", "{", "|", "}", "~">>

\* The rank of a character in byte order (control characters sort below the
\* space, printable characters in the order of Ascii).
Ord(c) ==
  IF c = "\t" THEN 9
  ELSE IF c = "\n" THEN 10
  ELSE IF c = "\r" THEN 13
  ELSE 31 + (CHOOSE i \in 1..Len(Ascii) : Ascii[i] = c)

\* Byte-order comparison of two character sequences (str < str in Python).
RECURSIVE StrLess(_, _)
StrLess(a, b) ==
  IF b = <<>> THEN FALSE
  ELSE IF a = <<>> THEN TRUE
  ELSE IF Head(a) = Head(b) THEN StrLess(Tail(a), Tail(b))
  ELSE Ord(Head(a)) < Ord(Head(b))

----------------------------------------------------------------------------
(* String helpers of the Python runtime *)

RECURSIVE LStrip(_)
LStrip(s) ==
  IF s # <<>> /\ Head(s) \in SpaceChars THEN LStrip(Tail(s)) ELSE s

RECURSIVE RStrip(_)
RStrip(s) ==
  IF s # <<>> /\ s[Len(s)] \in SpaceChars THEN RStrip(SubSeq(s, 1, Len(s) - 1)) ELSE s

Strip(s) == LStrip(RStrip(s))

StartsWith(s, p) == Len(s) >= Len(p) /\ SubSeq(s, 1, Len(p)) = p

EndsWith(s, p) == Len(s) >= Len(p) /\ SubSeq(s, Len(s) - Len(p) + 1, Len(s)) = p

\* s[n:] of Python.
Drop(s, n) == SubSeq(s, n + 1, Len(s))

\* text.split(sep) for a one-character separator: never empty.
RECURSIVE SplitAcc(_, _, _)
SplitAcc(s, sep, cur) ==
  IF s = <<>> THEN <<cur>>
  ELSE IF Head(s) = sep THEN <<cur>> \o SplitAcc(Tail(s), sep, <<>>)
  ELSE SplitAcc(Tail(s), sep, Append(cur, Head(s)))

Split(s, sep) == SplitAcc(s, sep, <<>>)

\* The length of the longest prefix of s made of characters of cls.
RECURSIVE PrefixLen(_, _)
PrefixLen(s, cls) ==
  IF s # <<>> /\ Head(s) \in cls THEN 1 + PrefixLen(Tail(s), cls) ELSE 0

AllIn(s, cls) == \A i \in 1..Len(s) : s[i] \in cls

----------------------------------------------------------------------------
(* Values *)

VNull == [t |-> "null"]
VBool(b) == [t |-> "bool", b |-> b]
VInt(i) == [t |-> "int", i |-> i]
VStr(s) == [t |-> "str", s |-> s]
VMap(es) == [t |-> "map", es |-> es]
VSeq(xs) == [t |-> "seq", xs |-> xs]

Entry(k, v) == [k |-> k, v |-> v]

IsScalarValue(v) == v.t \in {"null", "bool", "int", "str"}

\* The reserved annotation key.
HumanKey == <<"$", "h", "u", "m", "a", "n", "$">>

----------------------------------------------------------------------------
(* Scalar decoding: RestrictedYAMLParser.parse_scalar_string and helpers *)

\* IDENT_PATTERN ^[A-Za-z0-9_]+$ on a string without newline.
MatchesIdent(s) == s # <<>> /\ AllIn(s, IdentChars)

\* NUMBER_PATTERN ^-?[0-9]+$ on a string without newline.
MatchesNumber(s) ==
  LET d == IF s # <<>> /\ Head(s) = "-" THEN Tail(s) ELSE s
  IN  d # <<>> /\ AllIn(d, DigitChars)

\* QUOTED_PATTERN ^"(?:[^"\\]|\\.)*"$ : the body from position i on is made
\* of plain characters and backslash pairs, up to the closing quote.
RECURSIVE QuotedBody(_, _)
QuotedBody(s, i) ==
  IF i > Len(s) THEN FALSE
  ELSE IF s[i] = "\"" THEN i = Len(s)
  ELSE IF s[i] = "\\" THEN i + 1 <= Len(s) /\ s[i + 1] # "\n" /\ QuotedBody(s, i + 2)
  ELSE QuotedBody(s, i + 1)

MatchesQuoted(s) == s # <<>> /\ Head(s) = "\"" /\ QuotedBody(s, 2)

DigitVal(c) == (CHOOSE i \in 1..10 : Digits[i] = c) - 1

RECURSIVE DigitsVal(_, _)
DigitsVal(d, acc) ==
  IF d = <<>> THEN acc ELSE DigitsVal(Tail(d), 10 * acc + DigitVal(Head(d)))

\* int(s) for s matching NUMBER_PATTERN.
PyInt(s) == IF Head(s) = "-" THEN 0 - DigitsVal(Tail(s), 0) ELSE DigitsVal(s, 0)

\* parse_quoted_string: the scan of content from index i (1-based).
RECURSIVE UnescapeFrom(_, _)
UnescapeFrom(content, i) ==
  IF i > Len(content) THEN <<>>
  ELSE IF content[i] = "\\" /\ i + 1 <= Len(content)
       THEN LET next_char == content[i + 1]
            IN  IF next_char = "n" THEN <<"\n">> \o UnescapeFrom(content, i + 2)
                ELSE IF next_char = "t" THEN <<"\t">> \o UnescapeFrom(content, i + 2)
                ELSE IF next_char = "r" THEN <<"\r">> \o UnescapeFrom(content, i + 2)
                ELSE IF next_char = "\\" THEN <<"\\">> \o UnescapeFrom(content, i + 2)
                ELSE IF next_char = "\"" THEN <<"\"">> \o UnescapeFrom(content, i + 2)
                ELSE <<content[i]>> \o UnescapeFrom(content, i + 1)
       ELSE <<content[i]>> \o UnescapeFrom(content, i + 1)

\* s[1:-1] of Python.
Inner(s) == SubSeq(s, 2, Len(s) - 1)

\* The content between the quotes as it stands: no escape decoded.
parse_quoted_string_raw(s) == Inner(s)

parse_quoted_string(s) == UnescapeFrom(Inner(s), 1)

parse_scalar_string_reordered(s0) ==
  LET s == Strip(s0)
  IN  IF s = <<>> THEN VNull
      ELSE IF MatchesIdent(s) THEN VStr(s)
      ELSE IF s = <<"n", "u", "l", "l">> THEN VNull
      ELSE IF s \in {<<"t", "r", "u", "e">>, <<"f", "a", "l", "s", "e">>}
           THEN VBool(s = <<"t", "r", "u", "e">>)
      ELSE IF MatchesNumber(s) THEN VInt(PyInt(s))
      ELSE IF StartsWith(s, <<"\"">>) /\ EndsWith(s, <<"\"">>)
           THEN VStr(parse_quoted_string(s))
      ELSE VStr(s)

parse_scalar_string(s0) ==
  LET s == Strip(s0)
  IN  IF s = <<>> THEN VNull
      ELSE IF s = <<"n", "u", "l", "l">> THEN VNull
      ELSE IF s \in {<<"t", "r", "u", "e">>, <<"f", "a", "l", "s", "e">>}
           THEN VBool(s = <<"t", "r", "u", "e">>)
      ELSE IF MatchesNumber(s) THEN VInt(PyInt(s))
      ELSE IF StartsWith(s, <<"\"">>) /\ EndsWith(s, <<"\"">>)
           THEN VStr(parse_quoted_string(s))
      ELSE IF MatchesIdent(s) THEN VStr(s)
      ELSE VStr(s)

\* ^[A-Za-z0-9_]+: at the start of s: the key length, or 0 when no match.
KeyLen(s) ==
  LET n == PrefixLen(s, IdentChars)
  IN  IF n > 0 /\ n < Len(s) /\ s[n + 1] = ":" THEN n ELSE 0

is_scalar(s0) ==
  LET s == Strip(s0)
  IN  IF s = <<>> THEN FALSE
      ELSE IF StartsWith(s, <<"\"">>) /\ EndsWith(s, <<"\"">>) THEN TRUE
      ELSE IF KeyLen(s) > 0 /\ KeyLen(s) + 1 = Len(s) THEN FALSE
      ELSE IF StartsWith(s, <<"-", " ">>) THEN FALSE
      ELSE TRUE

----------------------------------------------------------------------------
(* The parser: RestrictedYAMLParser.  self.lines is ls, self.pos is the     *)
(* 0-based cursor p (the current line is ls[p + 1]).  Each method is an      *)
(* operator from the cursor before the call to [v |-> the value returned,    *)
(* pos |-> the cursor after the call].  Python None is VNull.                *)

\* Spaces per indentation level (current_indent_spaces // 2).
IndentUnit == 2

\* len(line) - len(line.lstrip())
IndentSpaces(line) == Len(line) - Len(LStrip(line))

IndentLevel(line) == IndentSpaces(line) \div IndentUnit

\* __init__: [line for line in text.split('\n') if line.strip() or line == '']
RECURSIVE KeepLines(_)
KeepLines(ls) ==
  IF ls = <<>> THEN <<>>
  ELSE IF Strip(Head(ls)) # <<>> \/ Head(ls) = <<>>
       THEN <<Head(ls)>> \o KeepLines(Tail(ls))
       ELSE KeepLines(Tail(ls))

InitLines(t) == KeepLines(Split(t, "\n"))

Ret(v, p) == [v |-> v, pos |-> p]

\* result[key] = value on a dict kept as a sequence of entries.
DictSet(es, k, v) ==
  IF \E i \in 1..Len(es) : es[i].k = k
  THEN [i \in 1..Len(es) |-> IF es[i].k = k THEN Entry(k, v) ELSE es[i]]
  ELSE Append(es, Entry(k, v))

RECURSIVE SkipBlank(_, _)

\* The cursor left where it is: no empty line is skipped.
SkipBlankNone(ls, p) == p

\* while self.pos < len(self.lines): if line.strip(): break; self.pos += 1
SkipBlank(ls, p) ==
  IF p < Len(ls) /\ Strip(ls[p + 1]) = <<>> THEN SkipBlank(ls, p + 1) ELSE p

parse_scalar(ls, p) ==
  IF p >= Len(ls) THEN Ret(VNull, p)
  ELSE Ret(parse_scalar_string(LStrip(ls[p + 1])), p + 1)

RECURSIVE parse_element(_, _, _)
RECURSIVE parse_mapping_loop(_, _, _, _)
RECURSIVE parse_pair(_, _, _)
RECURSIVE parse_list_loop(_, _, _, _)
RECURSIVE parse_item(_, _, _)

\* The body of the while loop of parse_mapping, with result = es.
parse_mapping_loop(ls, p, indent, es) ==
  IF p >= Len(ls) THEN Ret(VMap(es), p)
  ELSE LET current_indent_level == IndentLevel(ls[p + 1])
       IN  IF current_indent_level < indent THEN Ret(VMap(es), p)
           ELSE IF current_indent_level # indent
                THEN parse_mapping_loop(ls, p + 1, indent, es)
           ELSE LET pair == parse_pair(ls, p, indent)
                IN  IF pair.ok
                    THEN parse_mapping_loop(ls, pair.pos, indent,
                                            DictSet(es, pair.k, pair.v))
                    ELSE Ret(VMap(es), pair.pos)

parse_mapping(ls, p, indent) == parse_mapping_loop(ls, p, indent, <<>>)

\* [ok |-> FALSE] is the None that parse_pair returns for "no pair".
parse_pair(ls, p, indent) ==
  IF p >= Len(ls) THEN [ok |-> FALSE, pos |-> p]
  ELSE
    LET line == ls[p + 1]
        stripped == LStrip(line)
        n == KeyLen(stripped)
        key == SubSeq(stripped, 1, n)
        value_str == Strip(Drop(stripped, n + 1))
        saved_pos == p + 1
        q == SkipBlank(ls, saved_pos)
        Pair(v, np) == [ok |-> TRUE, k |-> key, v |-> v, pos |-> np]
    IN  IF IndentLevel(line) # indent THEN [ok |-> FALSE, pos |-> p]
        ELSE IF n = 0 THEN [ok |-> FALSE, pos |-> p]
        ELSE IF value_str # <<>> /\ is_scalar(value_str)
             THEN Pair(parse_scalar_string(value_str), p + 1)
        ELSE IF saved_pos < Len(ls)
             THEN IF q < Len(ls)
                  THEN LET next_indent_level == IndentLevel(ls[q + 1])
                       IN  IF next_indent_level = indent + 1
                           THEN LET e == parse_element(ls, q, indent + 1)
                                IN  Pair(e.v, e.pos)
                           ELSE IF next_indent_level <= indent
                                THEN Pair(VNull, saved_pos)
                           ELSE Pair(VNull, q)
                  ELSE Pair(VNull, saved_pos)
        ELSE Pair(VNull, saved_pos)

\* One list item of parse_list: the code from `value_str = stripped[2:]` to
\* the append, for the item line at cursor p; v is the value appended.
parse_item(ls, p, indent) ==
  LET value_str == LStrip(Drop(LStrip(ls[p + 1]), 2))
      q == p + 1
  IN  IF value_str # <<>> /\ is_scalar(value_str)
      THEN Ret(parse_scalar_string(value_str), q)
      ELSE IF q < Len(ls) /\ IndentLevel(ls[q + 1]) = indent + 1
           THEN parse_element(ls, q, indent + 1)
      ELSE IF value_str # <<>> THEN Ret(parse_scalar_string(value_str), q)
      ELSE Ret(VNull, q)

\* The body of the while loop of parse_list, with result = xs.
parse_list_loop(ls, p, indent, xs) ==
  IF p >= Len(ls) THEN Ret(VSeq(xs), p)
  ELSE
    LET line == ls[p + 1]
        stripped == LStrip(line)
        current_indent_level == IndentLevel(line)
    IN  IF current_indent_level < indent THEN Ret(VSeq(xs), p)
        ELSE IF current_indent_level # indent
             THEN parse_list_loop(ls, p + 1, indent, xs)
        ELSE IF StartsWith(stripped, <<"-", " ">>)
             THEN LET item == parse_item(ls, p, indent)
                  IN  parse_list_loop(ls, item.pos, indent, Append(xs, item.v))
        ELSE Ret(VSeq(xs), p)

parse_list(ls, p, indent) == parse_list_loop(ls, p, indent, <<>>)

parse_element(ls, p, indent) ==
  IF p >= Len(ls) THEN Ret(VNull, p)
  ELSE
    LET line == ls[p + 1]
        stripped == LStrip(line)
    IN  IF IndentLevel(line) # indent THEN Ret(VNull, p)
        ELSE IF KeyLen(stripped) > 0 THEN parse_mapping(ls, p, indent)
        ELSE IF StartsWith(stripped, <<"-", " ">>) THEN parse_list(ls, p, indent)
        ELSE parse_scalar(ls, p)

\* parse(): the cursor starts at 0; no path of the method raises.
parse(ls) ==
  IF ls = <<>> THEN Ret(VNull, 0)
  ELSE LET p == SkipBlank(ls, 0)
       IN  IF p >= Len(ls) THEN Ret(VNull, p) ELSE parse_element(ls, p, 0)

\* parse_restricted_yaml(text)
parse_restricted_yaml(t) == parse(InitLines(t))

----------------------------------------------------------------------------
(* The parser step by step.  One step is the code between two points where  *)
(* control is at: the entry of parse, the head of one of its loops, the      *)
(* entry of parse_element, or a return.  ctl is that point with the locals   *)
(* live there, stack the callers waiting for the value of a nested           *)
(* parse_element, p the cursor self.pos.                                     *)

CParse == [k |-> "parse"]
CSkip == [k |-> "skip"]
CElem(indent) == [k |-> "elem", indent |-> indent]
CMap(indent, es) == [k |-> "map", indent |-> indent, es |-> es]
CList(indent, xs) == [k |-> "list", indent |-> indent, xs |-> xs]
CRet(v) == [k |-> "ret", v |-> v]
CDone(v) == [k |-> "done", v |-> v]

\* parse_pair waiting at line 171, and parse_list waiting at line 256.
PairFrame(indent, es, key) == [k |-> "pair", indent |-> indent, es |-> es, key |-> key]
ItemFrame(indent, xs) == [k |-> "item", indent |-> indent, xs |-> xs]

Machine(ctl, stack, p) == [ctl |-> ctl, stack |-> stack, pos |-> p]

\* parse(): `if not self.lines: return None`.
ParseStep(ls, p, stack) ==
  IF ls = <<>> THEN Machine(CRet(VNull), stack, p) ELSE Machine(CSkip, stack, p)

\* parse(): one test of the while loop that removes empty lines at the
\* start, and what follows the loop.
SkipStep(ls, p, stack) ==
  IF p < Len(ls) /\ Strip(ls[p + 1]) = <<>> THEN Machine(CSkip, stack, p + 1)
  ELSE IF p >= Len(ls) THEN Machine(CRet(VNull), stack, p)
  ELSE Machine(CElem(0), stack, p)

\* parse_element up to its tail call; parse_scalar is run with it.
ElemStep(ls, p, indent, stack) ==
  IF p >= Len(ls) THEN Machine(CRet(VNull), stack, p)
  ELSE
    LET line == ls[p + 1]
        stripped == LStrip(line)
    IN  IF IndentLevel(line) # indent THEN Machine(CRet(VNull), stack, p)
        ELSE IF KeyLen(stripped) > 0 THEN Machine(CMap(indent, <<>>), stack, p)
        ELSE IF StartsWith(stripped, <<"-", " ">>) THEN Machine(CList(indent, <<>>), stack, p)
        ELSE Machine(CRet(parse_scalar_string(stripped)), stack, p + 1)

\* The cursor put back on the key line itself.
SavedPosOnKeyLine(p) == p

\* parse_pair: self.pos += 1 past the key line at p, then saved_pos = self.pos.
SavedPos(p) == p + 1

\* One pass of the while loop of parse_mapping, parse_pair included, up to
\* the next test of the loop, the nested parse_element, or the return.
MapStep(ls, p, indent, es, stack) ==
  IF p >= Len(ls) THEN Machine(CRet(VMap(es)), stack, p)
  ELSE
    LET line == ls[p + 1]
        stripped == LStrip(line)
        n == KeyLen(stripped)
        key == SubSeq(stripped, 1, n)
        value_str == Strip(Drop(stripped, n + 1))
        saved_pos == SavedPos(p)
        q == SkipBlank(ls, saved_pos)
        more == saved_pos < Len(ls) /\ q < Len(ls)
    IN  IF IndentLevel(line) < indent THEN Machine(CRet(VMap(es)), stack, p)
        ELSE IF IndentLevel(line) # indent THEN Machine(CMap(indent, es), stack, p + 1)
        ELSE IF n = 0 THEN Machine(CRet(VMap(es)), stack, p)
        ELSE IF value_str # <<>> /\ is_scalar(value_str)
             THEN Machine(CMap(indent, DictSet(es, key, parse_scalar_string(value_str))),
                          stack, p + 1)
        ELSE IF more /\ IndentLevel(ls[q + 1]) = indent + 1
             THEN Machine(CElem(indent + 1), Append(stack, PairFrame(indent, es, key)), q)
        ELSE IF more /\ IndentLevel(ls[q + 1]) > indent + 1
             THEN Machine(CMap(indent, DictSet(es, key, VNull)), stack, q)
        ELSE Machine(CMap(indent, DictSet(es, key, VNull)), stack, saved_pos)

\* One pass of the while loop of parse_list, up to the next test of the
\* loop, the nested parse_element, or the return.
ListStep(ls, p, indent, xs, stack) ==
  IF p >= Len(ls) THEN Machine(CRet(VSeq(xs)), stack, p)
  ELSE
    LET line == ls[p + 1]
        stripped == LStrip(line)
        value_str == LStrip(Drop(stripped, 2))
        q == p + 1
    IN  IF IndentLevel(line) < indent THEN Machine(CRet(VSeq(xs)), stack, p)
        ELSE IF IndentLevel(line) # indent THEN Machine(CList(indent, xs), stack, p + 1)
        ELSE IF ~StartsWith(stripped, <<"-", " ">>) THEN Machine(CRet(VSeq(xs)), stack, p)
        ELSE IF value_str # <<>> /\ is_scalar(value_str)
             THEN Machine(CList(indent, Append(xs, parse_scalar_string(value_str))), stack, q)
        ELSE IF q < Len(ls) /\ IndentLevel(ls[q + 1]) = indent + 1
             THEN Machine(CElem(indent + 1), Append(stack, ItemFrame(indent, xs)), q)
        ELSE IF value_str # <<>>
             THEN Machine(CList(indent, Append(xs, parse_scalar_string(value_str))), stack, q)
        ELSE Machine(CList(indent, Append(xs, VNull)), stack, q)

\* A return: the value goes to the caller on top of the stack, or out of parse.
RetStep(v, p, stack) ==
  IF stack = <<>> THEN Machine(CDone(v), stack, p)
  ELSE LET f == stack[Len(stack)]
           rest == SubSeq(stack, 1, Len(stack) - 1)
       IN  IF f.k = "pair" THEN Machine(CMap(f.indent, DictSet(f.es, f.key, v)), rest, p)
           ELSE Machine(CList(f.indent, Append(f.xs, v)), rest, p)

\* One step of a parser whose self.lines is ls, from machine state m.
ParserStep(ls, m) ==
  CASE m.ctl.k = "parse" -> ParseStep(ls, m.pos, m.stack)
    [] m.ctl.k = "skip" -> SkipStep(ls, m.pos, m.stack)
    [] m.ctl.k = "elem" -> ElemStep(ls, m.pos, m.ctl.indent, m.stack)
    [] m.ctl.k = "map" -> MapStep(ls, m.pos, m.ctl.indent, m.ctl.es, m.stack)
    [] m.ctl.k = "list" -> ListStep(ls, m.pos, m.ctl.indent, m.ctl.xs, m.stack)
    [] m.ctl.k = "ret" -> RetStep(m.ctl.v, m.pos, m.stack)

----------------------------------------------------------------------------
(* The canonical serializer (DeterministicYAML.to_deterministic_yaml), whose *)
(* source is lib/deterministic_yaml.py.  Rules: Null, Bool and Int are bare;  *)
(* a Str is bare when it matches the identifier pattern (and is not the       *)
(* spelling of a null, boolean or integer) and quoted with escapes            *)
(* otherwise; a mapping emits the reserved key first and then the     *)
(* other keys in byte order, `key: scalar` or `key:` and the nested block     *)
(* one level deeper; a sequence emits `- scalar` or `- ` and the nested      *)
(* block one level deeper, items in order; every line ends with one newline. *)
(* An empty mapping is rendered {} and an empty sequence [].                 *)

RECURSIVE NatToStr(_)
NatToStr(n) ==
  IF n < 10 THEN <<Digits[n + 1]>>
  ELSE NatToStr(n \div 10) \o <<Digits[(n % 10) + 1]>>

IntToStr(i) == IF i < 0 THEN <<"-">> \o NatToStr(0 - i) ELSE NatToStr(i)

EscapeChar(c) ==
  IF c = "\\" THEN <<"\\", "\\">>
  ELSE IF c = "\"" THEN <<"\\", "\"">>
  ELSE IF c = "\n" THEN <<"\\", "n">>
  ELSE IF c = "\t" THEN <<"\\", "t">>
  ELSE IF c = "\r" THEN <<"\\", "r">>
  ELSE <<c>>

RECURSIVE Escape(_)
Escape(s) == IF s = <<>> THEN <<>> ELSE EscapeChar(Head(s)) \o Escape(Tail(s))

Quote(s) == <<"\"">> \o Escape(s) \o <<"\"">>

\* A bare token that decodes to something other than the string it spells.
SpellsOtherScalar(s) ==
  \/ s \in {<<"n", "u", "l", "l">>, <<"t", "r", "u", "e">>, <<"f", "a", "l", "s", "e">>}
  \/ MatchesNumber(s)

\* The minimal representation that is unambiguous: bare for an identifier
\* that no other scalar kind claims, quoted otherwise.
EncodeStr(s) == IF MatchesIdent(s) /\ ~SpellsOtherScalar(s) THEN s ELSE Quote(s)

EncodeScalar(v) ==
  IF v.t = "null" THEN <<"n", "u", "l", "l">>
  ELSE IF v.t = "bool"
       THEN (IF v.b THEN <<"t", "r", "u", "e">> ELSE <<"f", "a", "l", "s", "e">>)
  ELSE IF v.t = "int" THEN IntToStr(v.i)
  ELSE EncodeStr(v.s)

EmptyMapMarker == <<"{", "}">>
EmptySeqMarker == <<"[", "]">>

\* What is written on the line of its key or dash: a scalar or an empty marker.
IsInline(v) ==
  \/ IsScalarValue(v)
  \/ v.t = "map" /\ v.es = <<>>
  \/ v.t = "seq" /\ v.xs = <<>>

InlineText(v) ==
  IF v.t = "map" THEN EmptyMapMarker
  ELSE IF v.t = "seq" THEN EmptySeqMarker
  ELSE EncodeScalar(v)

RECURSIVE Spaces(_)
Spaces(n) == IF n = 0 THEN <<>> ELSE <<" ">> \o Spaces(n - 1)

\* Insertion of entry e into the key-sorted sequence es.
RECURSIVE InsertSorted(_, _)
InsertSorted(e, es) ==
  IF es = <<>> THEN <<e>>
  ELSE IF StrLess(e.k, Head(es).k) THEN <<e>> \o es
  ELSE <<Head(es)>> \o InsertSorted(e, Tail(es))

RECURSIVE SortByKey(_)
SortByKey(es) == IF es = <<>> THEN <<>> ELSE InsertSorted(Head(es), SortByKey(Tail(es)))

\* The order in which a mapping's entries are emitted.
EmitOrderUnsorted(es) == es

EmitOrderReservedLast(es) ==
  SortByKey(SelectSeq(es, LAMBDA e : e.k # HumanKey))
    \o SelectSeq(es, LAMBDA e : e.k = HumanKey)

EmitOrder(es) ==
  SelectSeq(es, LAMBDA e : e.k = HumanKey)
    \o SortByKey(SelectSeq(es, LAMBDA e : e.k # HumanKey))

RECURSIVE Serialize(_, _)
RECURSIVE SerializeEntries(_, _)
RECURSIVE SerializeItems(_, _)

\* SerializeEntries writing "key: " also before a nested block.
SerializeEntriesKeySpace(es, depth) ==
  IF es = <<>> THEN <<>>
  ELSE LET e == Head(es)
           head == Spaces(IndentUnit * depth) \o e.k \o <<":", " ">>
       IN  (IF IsInline(e.v)
            THEN head \o InlineText(e.v) \o <<"\n">>
            ELSE head \o <<"\n">> \o Serialize(e.v, depth + 1))
           \o SerializeEntries(Tail(es), depth)

SerializeEntries(es, depth) ==
  IF es = <<>> THEN <<>>
  ELSE LET e == Head(es)
           head == Spaces(IndentUnit * depth) \o e.k \o <<":">>
       IN  (IF IsInline(e.v)
            THEN head \o <<" ">> \o InlineText(e.v) \o <<"\n">>
            ELSE head \o <<"\n">> \o Serialize(e.v, depth + 1))
           \o SerializeEntries(Tail(es), depth)

SerializeItems(xs, depth) ==
  IF xs = <<>> THEN <<>>
  ELSE LET head == Spaces(IndentUnit * depth) \o <<"-", " ">>
       IN  (IF IsInline(Head(xs))
            THEN head \o InlineText(Head(xs)) \o <<"\n">>
            ELSE head \o <<"\n">> \o Serialize(Head(xs), depth + 1))
           \o SerializeItems(Tail(xs), depth)

Serialize(v, depth) ==
  IF IsInline(v) THEN Spaces(IndentUnit * depth) \o InlineText(v) \o <<"\n">>
  ELSE IF v.t = "map" THEN SerializeEntries(EmitOrder(v.es), depth)
  ELSE SerializeItems(v.xs, depth)

DeterministicYAML_to_deterministic_yaml(data) == Serialize(data, 0)

\* dyaml/core/serializer.py: delegates to DeterministicYAML.
to_deterministic_yaml(data) == DeterministicYAML_to_deterministic_yaml(data)

----------------------------------------------------------------------------
(* The validator (dyaml/core/validator.py: validate_string), whose source is *)
(* not part of the files at hand.  It scans the physical lines one by one     *)
(* and reports, per line: a tab outside quotes, a comment marker outside      *)
(* quotes, a flow-style marker outside quotes, an anchor, tag or document     *)
(* marker, an indentation that is not a multiple of 2, and a reserved key     *)
(* that follows a sibling key.  In strict mode it also warns about trailing   *)
(* whitespace.  valid iff there is no error finding.                          *)

Finding(n, msg, sev) == [line |-> n, message |-> msg, severity |-> sev]

\* For the characters of line from index i on: TRUE where the character is
\* outside a double-quoted string (the quotes themselves are inside).
RECURSIVE OutsideFrom(_, _, _)
OutsideFrom(line, i, inq) ==
  IF i > Len(line) THEN <<>>
  ELSE IF inq
       THEN IF line[i] = "\\" /\ i + 1 <= Len(line)
            THEN <<FALSE, FALSE>> \o OutsideFrom(line, i + 2, TRUE)
            ELSE <<FALSE>> \o OutsideFrom(line, i + 1, line[i] # "\"")
  ELSE IF line[i] = "\"" THEN <<FALSE>> \o OutsideFrom(line, i + 1, TRUE)
  ELSE <<TRUE>> \o OutsideFrom(line, i + 1, FALSE)

\* The characters of line that occur outside quotes.
OutsideChars(line) ==
  LET o == OutsideFrom(line, 1, FALSE)
  IN  {line[i] : i \in {j \in 1..Len(line) : o[j]}}

FlowChars == {"{", "}", "[", "]"}
AnchorChars == {"&", "*", "!"}
DocMarkers == {<<"-", "-", "-">>, <<".", ".", ".">>}

\* Leading spaces of a line (tabs are not indentation).
LeadingSpaces(line) == PrefixLen(line, {" "})

\* The key of a `key:` line as the validator reads it, <<>> when it is none.
ValidatorKey(line) ==
  LET stripped == Drop(line, LeadingSpaces(line))
      n == PrefixLen(stripped, IdentChars \cup {"$"})
  IN  IF n > 0 /\ n < Len(stripped) /\ stripped[n + 1] = ":"
      THEN SubSeq(stripped, 1, n) ELSE <<>>

\* The mapping scopes still open when a line at level lvl is read.
OpenScopes(sn, lvl) == {l \in sn : l <= lvl}

ReservedOutOfOrder(line, sn) ==
  /\ ValidatorKey(line) = HumanKey
  /\ (LeadingSpaces(line) \div IndentUnit) \in OpenScopes(sn, LeadingSpaces(line) \div IndentUnit)

\* The "non-reserved key seen" flags after the line.
SeenAfter(line, sn) ==
  LET lvl == LeadingSpaces(line) \div IndentUnit
      k == ValidatorKey(line)
  IN  IF Strip(line) = <<>> THEN sn
      ELSE IF k # <<>> /\ k # HumanKey THEN OpenScopes(sn, lvl) \cup {lvl}
      ELSE OpenScopes(sn, lvl)

CommentFirstColumnOnly(line) == line # <<>> /\ Head(line) = "#"

HasComment(line) == "#" \in OutsideChars(line)

HasTab(line) == "\t" \in OutsideChars(line)

HasFlowAnywhere(line) == {line[i] : i \in 1..Len(line)} \cap FlowChars # {}

HasFlow(line) == OutsideChars(line) \cap FlowChars # {}

HasAnchor(line) ==
  \/ OutsideChars(line) \cap AnchorChars # {}
  \/ Strip(line) \in DocMarkers

BadIndent(line) == Strip(line) # <<>> /\ LeadingSpaces(line) % IndentUnit # 0

\* The error findings of physical line number n.
LineErrors(line, n, sn) ==
  (IF HasTab(line) THEN <<Finding(n, "tab", "error")>> ELSE <<>>)
  \o (IF HasComment(line) THEN <<Finding(n, "comment", "error")>> ELSE <<>>)
  \o (IF HasFlow(line) THEN <<Finding(n, "flow style", "error")>> ELSE <<>>)
  \o (IF HasAnchor(line) THEN <<Finding(n, "anchor", "error")>> ELSE <<>>)
  \o (IF BadIndent(line) THEN <<Finding(n, "indentation", "error")>> ELSE <<>>)
  \o (IF ReservedOutOfOrder(line, sn)
      THEN <<Finding(n, "reserved key not first", "error")>> ELSE <<>>)

\* The warning findings of physical line number n.
LineWarnings(line, n, st) ==
  IF st /\ line # <<>> /\ line[Len(line)] \in {" ", "\t"}
  THEN <<Finding(n, "trailing whitespace", "warning")>> ELSE <<>>

\* Whether the scan is over.
ScanStopsAtFirstError(ls, n, errs) == n = Len(ls) \/ errs # <<>>

ScanDone(ls, n, errs) == n = Len(ls)

ValidationResultStrictWarnings(errs, warns) ==
  [valid |-> Len(errs) = 0 /\ Len(warns) = 0, errors |-> errs, warnings |-> warns]

ValidationResult(errs, warns) ==
  [valid |-> Len(errs) = 0, errors |-> errs, warnings |-> warns]

\* The scan of validate_string from line n on, as one computation.
RECURSIVE ScanFrom(_, _, _, _, _, _)
ScanFrom(ls, n, errs, warns, sn, st) ==
  IF ScanDone(ls, n, errs) THEN ValidationResult(errs, warns)
  ELSE ScanFrom(ls, n + 1, errs \o LineErrors(ls[n + 1], n + 1, sn),
                warns \o LineWarnings(ls[n + 1], n + 1, st),
                SeenAfter(ls[n + 1], sn), st)

validate_string(t, st) == ScanFrom(Split(t, "\n"), 0, <<>>, <<>>, {}, st)

\* A file: its content, or unreadable (reading it raises).
File(readable, content) == [readable |-> readable, content |-> content]

\* validate_file(path, strict): what the call does, "raised" or a result.
validate_file(f, st) ==
  IF f.readable THEN [raised |-> FALSE, result |-> validate_string(f.content, st)]
  ELSE [raised |-> TRUE]

----------------------------------------------------------------------------
(* The validate command: dyaml/cli/validate.py *)

\* Python None in the results list.
None == [none |-> TRUE]

AllValidLastFileOnly(flag, outcome) ==
  IF outcome.raised THEN FALSE ELSE outcome.result.valid

\* all_valid after one pass of the loop body.
AllValidAfter(flag, outcome) ==
  IF outcome.raised THEN FALSE
  ELSE IF ~outcome.result.valid THEN FALSE
  ELSE flag

\* results after one pass of the loop body.
ResultsAfter(rs, f, outcome) ==
  Append(rs, <<f, IF outcome.raised THEN None ELSE outcome.result>>)

\* _output_json(results): the object printed, "valid" and "files"; a result
\* object counts as true and None as false.
OutputJson(rs) ==
  [valid |-> \A i \in 1..Len(rs) : rs[i][2] # None => rs[i][2].valid,
   files |-> [i \in 1..Len(rs) |->
                IF rs[i][2] # None
                THEN [file |-> rs[i][1], valid |-> rs[i][2].valid,
                      errors |-> rs[i][2].errors, warnings |-> rs[i][2].warnings]
                ELSE [file |-> rs[i][1], valid |-> FALSE,
                      errors |-> <<[line |-> 0, severity |-> "error"]>>,
                      warnings |-> <<>>]]]

\* sys.exit(0 if all_valid else 1)
ExitStatus(flag) == IF flag THEN 0 ELSE 1

----------------------------------------------------------------------------
(* The convert command: dyaml/cli/convert.py.  A path is the sequence of the *)
(* directory names above it, a stem and a suffix; the file system is the set *)
(* of its directories and the set of (path, data) of its files.              *)

PathOf(dir, stem, suffix) == [dir |-> dir, stem |-> stem, suffix |-> suffix]

\* dirpath / f"{stem}.d.yaml"
ChildOf(dirpath, stem) ==
  PathOf(Append(dirpath.dir, <<dirpath.stem, dirpath.suffix>>), stem, ".d.yaml")

\* input_path.parent / f"{input_path.stem}.d.yaml"
SiblingOf(input_path) == PathOf(input_path.dir, input_path.stem, ".d.yaml")

\* Standard output as a target.
Stdout == [stdout |-> TRUE]

is_dir(f, path) == path \in f.dirs

IsFile(f, path) == \E e \in f.files : e[1] = path

exists(f, path) == is_dir(f, path) \/ IsFile(f, path)

\* output_path.mkdir(parents=True, exist_ok=True)
mkdir(f, path) == [f EXCEPT !.dirs = @ \cup {path}]

\* with open(output_path, 'w') as f: f.write(data)
WriteFile(f, path, data) ==
  [f EXCEPT !.files = {e \in @ : e[1] # path} \cup {<<path, data>>}]

\* No convert command has been started.
NoCommand == [inputs |-> <<>>, output |-> None, in_place |-> FALSE, branch |-> "none"]

\* The branch of convert that the arguments select, on file system f:
\* "both" and "no_output" exit with status 2.
BranchOf(inputs, output, in_place, f) ==
  IF in_place /\ output # None THEN "both"
  ELSE IF Len(inputs) = 1 /\ output = None /\ ~in_place THEN "stdout"
  ELSE IF in_place THEN "in_place"
  ELSE IF output # None
       THEN IF is_dir(f, output) \/ Len(inputs) > 1 THEN "batch"
            ELSE IF Len(inputs) > 1 THEN "multiple" ELSE "single"
  ELSE "no_output"

\* The branches that exit with status 2 before any conversion.
UsageErrors == {"both", "multiple", "no_output"}

\* The target of converting input_path in the branch taken, on file system f.
TargetOf(c, input_path, f) ==
  CASE c.branch = "stdout" -> Stdout
    [] c.branch = "in_place" -> SiblingOf(input_path)
    [] c.branch = "batch" ->
         (IF is_dir(f, c.output) THEN ChildOf(c.output, input_path.stem) ELSE c.output)
    [] c.branch = "single" -> c.output

\* The Deterministic YAML text of an input, named by the input it is made from.
ConvertedFrom(input_path) == [converted |-> input_path]

----------------------------------------------------------------------------
(* The annotation converter: dyaml/core/converter.py.  A comment is a        *)
(* CommentInfo record [key_path, associated_key, text, comment_type]; a path   *)
(* is a sequence of keys; associated_key is VNull for None and VStr(k)         *)
(* otherwise; consolidate_comments returns VNull for None and VStr(text).      *)

CommentInfo(kp, ak, tx, ty) ==
  [key_path |-> kp, associated_key |-> ak, text |-> tx, comment_type |-> ty]

\* Every value but None counted as true.
TruthyUnlessNone(v) == v.t # "null"

\* bool(v) of Python.
Truthy(v) ==
  CASE v.t = "null" -> FALSE
    [] v.t = "bool" -> v.b
    [] v.t = "int" -> v.i # 0
    [] v.t = "str" -> v.s # <<>>
    [] v.t = "map" -> v.es # <<>>
    [] v.t = "seq" -> v.xs # <<>>

\* str(v) of Python, as an f-string formats v, for a scalar v.
PyStr(v) ==
  CASE v.t = "null" -> <<"N", "o", "n", "e">>
    [] v.t = "bool" -> (IF v.b THEN <<"T", "r", "u", "e">> ELSE <<"F", "a", "l", "s", "e">>)
    [] v.t = "int" -> (IF v.i < 0 THEN <<"-">> \o NatToStr(0 - v.i) ELSE NatToStr(v.i))
    [] v.t = "str" -> v.s

\* sep.join(parts)
RECURSIVE StrJoin(_, _)
StrJoin(sep, parts) ==
  IF parts = <<>> THEN <<>>
  ELSE IF Len(parts) = 1 THEN Head(parts)
  ELSE Head(parts) \o sep \o StrJoin(sep, Tail(parts))

\* The delimiter between consolidated comments.
Delimiter == <<" ", "|", " ">>

\* The condition under which consolidate_comments keeps a comment:
\*   comment.key_path == key_path or (<B and C and D> if key_path else None)
CommentBelongs(comment, key_path) ==
  \/ comment.key_path = key_path
  \/ IF key_path # <<>>
     THEN /\ Len(comment.key_path) = Len(key_path) + 1
          /\ SubSeq(comment.key_path, 1, Len(comment.key_path) - 1) = key_path
          /\ comment.associated_key = VStr(key_path[Len(key_path)])
     ELSE FALSE

CommentPartTextOnly(comment) == comment.text

\* parts.append(...) for one comment.
CommentPart(comment) ==
  IF Truthy(comment.associated_key)
  THEN comment.associated_key.s \o <<":", " ">> \o comment.text
  ELSE comment.text

consolidate_comments(comments, key_path) ==
  LET relevant_comments == SelectSeq(comments, LAMBDA c : CommentBelongs(c, key_path))
      parts == [i \in 1..Len(relevant_comments) |-> CommentPart(relevant_comments[i])]
  IN  IF relevant_comments = <<>> THEN VNull
      ELSE VStr(StrJoin(Delimiter, parts))

RECURSIVE add_human_fields(_, _, _)
RECURSIVE add_human_entries(_, _, _, _, _)
RECURSIVE add_human_items(_, _, _, _)

\* for key, value in data.items(): ... with result = acc.
add_human_entries(es, comments, path, human_value, acc) ==
  IF es = <<>> THEN acc
  ELSE
    LET key == Head(es).k
        value == Head(es).v
        existing_human == value
        merged_human ==
          IF Truthy(human_value)
          THEN (IF Truthy(existing_human)
                THEN VStr(PyStr(existing_human) \o Delimiter \o PyStr(human_value))
                ELSE human_value)
          ELSE existing_human
    IN  IF key = HumanKey
        THEN add_human_entries(Tail(es), comments, path, human_value,
                               DictSet(acc, HumanKey, merged_human))
        ELSE add_human_entries(Tail(es), comments, path, human_value,
               DictSet(acc, key, add_human_fields(value, comments, Append(path, key))))

\* for i, item in enumerate(data): ... from the item of index i on.
add_human_items(xs, comments, path, i) ==
  IF xs = <<>> THEN <<>>
  ELSE <<add_human_fields(Head(xs), comments, Append(path, NatToStr(i)))>>
         \o add_human_items(Tail(xs), comments, path, i + 1)

add_human_fields(data, comments, path) ==
  IF data.t = "map"
  THEN LET human_value == consolidate_comments(comments, path)
           first == IF Truthy(human_value) THEN <<Entry(HumanKey, human_value)>> ELSE <<>>
       IN  VMap(add_human_entries(data.es, comments, path, human_value, first))
  ELSE IF data.t = "seq" THEN VSeq(add_human_items(data.xs, comments, path, 0))
  ELSE data

RECURSIVE strip_human_fields(_)
RECURSIVE strip_human_entries(_)

strip_human_entries(es) ==
  IF es = <<>> THEN <<>>
  ELSE IF Head(es).k # HumanKey
       THEN <<Entry(Head(es).k, strip_human_fields(Head(es).v))>>
              \o strip_human_entries(Tail(es))
       ELSE strip_human_entries(Tail(es))

\* strip_human_fields without the descent into lists.
strip_human_fields_not_in_lists(data) ==
  IF data.t = "map" THEN VMap(strip_human_entries(data.es)) ELSE data

strip_human_fields(data) ==
  IF data.t = "map" THEN VMap(strip_human_entries(data.es))
  ELSE IF data.t = "seq"
       THEN VSeq([i \in 1..Len(data.xs) |-> strip_human_fields(data.xs[i])])
  ELSE data

\* The conversion with the flag ignored.
convert_always_preserving(data, comments, preserve_comments) ==
  add_human_fields(data, comments, <<>>)

convert_yaml_to_deterministic(data, comments, preserve_comments) ==
  IF preserve_comments THEN add_human_fields(data, comments, <<>>)
  ELSE strip_human_fields(data)

----------------------------------------------------------------------------
(* Inputs *)

\* Longest scalar token over TokenAlphabet.
MaxTokenLen == 3
\* Most entries of a generated mapping, most items of a generated sequence.
MaxEntries == 2
MaxItems == 2
\* Most lines of a text given to the parser, and to the validator.
MaxParseLines == 3
MaxValLines == 2

TokenAlphabet == {"a", "7", "-", "\"", "\\", "_"}

NamedTokens ==
  { <<"n", "u", "l", "l">>, <<"t", "r", "u", "e">>, <<"f", "a", "l", "s", "e">>,
    <<"3", "0">>, <<"-", "3", "0">>, <<"0", "0", "7">>,
    <<"\"", "t", "r", "u", "e", "\"">>, <<"\"", "3", "0", "\"">>,
    <<"\"", "n", "u", "l", "l", "\"">>, <<"\"", "a", " ", "b", "\"">>,
    <<"a", "b", "c", "_", "1">>, <<"N", "u", "l", "l">>, <<" ", "3", "0", " ">>,
    <<"\"", "a", "\\", "n", "b", "\"">>, <<"\"", "a", "\\", "q", "\"">> }

Tokens ==
  NamedTokens \cup UNION {[1..n -> TokenAlphabet] : n \in 1..MaxTokenLen}

\* Contents of quoted tokens: backslashes, quotes, the letters of the escapes,
\* a letter that is no escape, and the control characters themselves.
MaxContentLen == 3

ContentAlphabet == {"\\", "\"", "n", "t", "r", "q", "\n", "\t", "\r"}

Contents == UNION {[1..n -> ContentAlphabet] : n \in 0..MaxContentLen}

ScalarPool ==
  { VNull, VBool(TRUE), VBool(FALSE), VInt(0), VInt(-7), VInt(30),
    VStr(<<>>), VStr(<<"a">>), VStr(<<"n", "u", "l", "l">>),
    VStr(<<"t", "r", "u", "e">>), VStr(<<"3", "0">>), VStr(<<"a", " ", "b">>),
    VStr(<<"q", "\"", "\\", "\n", "\t">>), VStr(<<"k", ":", " ", "v">>),
    VStr(<<"-", " ", "z">>), VStr(<<"#", "{", "[">>) }

KeyPool == {<<"a">>, <<"B", "1">>, HumanKey}

\* Children of the generated two-level containers.
InnerPool ==
  { VInt(1), VStr(<<"x">>), VMap(<<>>), VSeq(<<>>),
    VMap(<<Entry(<<"b">>, VInt(2)), Entry(<<"a">>, VStr(<<"y">>))>>),
    VMap(<<Entry(<<"a">>, VInt(1)), Entry(HumanKey, VStr(<<"n">>))>>),
    VSeq(<<VStr(<<"x">>), VInt(1)>>) }

\* Sequences of n distinct keys.
KeySeqs(n) == {ks \in [1..n -> KeyPool] : \A i, j \in 1..n : i # j => ks[i] # ks[j]}

MapsOver(children, maxn) ==
  UNION {{VMap([i \in 1..n |-> Entry(ks[i], vs[i])]) :
            ks \in KeySeqs(n), vs \in [1..n -> children]} : n \in 0..maxn}

SeqsOver(children, maxn) ==
  UNION {{VSeq(xs) : xs \in [1..n -> children]} : n \in 0..maxn}

\* test_data of test_round_trip (lib/test_yaml_compatibility.py).
TestData ==
  VMap(<<Entry(<<"n", "a", "m", "e">>, VStr(<<"J", "o", "h", "n">>)),
         Entry(<<"a", "g", "e">>, VInt(30)),
         Entry(<<"a", "c", "t", "i", "v", "e">>, VBool(TRUE)),
         Entry(<<"t", "a", "g", "s">>, VSeq(<<VStr(<<"d", "e", "v">>), VStr(<<"o", "p", "s">>)>>)),
         Entry(<<"c", "o", "n", "f", "i", "g">>,
               VMap(<<Entry(<<"h", "o", "s", "t">>, VStr(<<"l", "o", "c", "a", "l", "h", "o", "s", "t">>)),
                      Entry(<<"p", "o", "r", "t">>, VInt(5432))>>))>>)

\* A mapping with the reserved key inserted between two keys in descending order.
Annotated ==
  VMap(<<Entry(<<"n", "a", "m", "e">>, VStr(<<"X">>)),
         Entry(HumanKey, VStr(<<"n", "o", "t", "e">>)),
         Entry(<<"Z">>, VSeq(<<VMap(<<Entry(<<"b">>, VInt(2)),
                                      Entry(HumanKey, VStr(<<"i", "n">>)),
                                      Entry(<<"a">>, VInt(1))>>)>>))>>)

\* A mapping whose strings hold, in their quoted form, every character the
\* validator forbids outside quotes.
Punctuated ==
  VMap(<<Entry(<<"s">>, VStr(<<"#", " ", "{", "a", ",", "b", "}", " ", "[", "]">>)),
         Entry(<<"r">>, VSeq(<<VStr(<<"&", "x", " ", "*", "x", " ", "!", "t">>),
                               VStr(<<"-", "-", "-">>)>>))>>)

NamedValues == {TestData, Annotated, Punctuated}

ValuePool ==
  NamedValues \cup ScalarPool \cup MapsOver(ScalarPool, 1) \cup SeqsOver(ScalarPool, 1)
    \cup MapsOver(InnerPool, MaxEntries) \cup SeqsOver(InnerPool, MaxItems)

RECURSIVE JoinLines(_)
\* "\n".join(ls)
JoinLines(ls) ==
  IF ls = <<>> THEN <<>>
  ELSE IF Len(ls) = 1 THEN Head(ls)
  ELSE Head(ls) \o <<"\n">> \o JoinLines(Tail(ls))

ParseLinePool ==
  { <<"a", ":", " ", "1">>, <<"b", ":">>, <<" ", " ", "c", ":", " ", "x">>,
    <<" ", " ", "-", " ", "y">>, <<"-", " ", "z">>, <<"-", " ">>, <<>>,
    <<" ", " ", " ", " ", "d", ":", " ", "2">>, <<"?", "b", "a", "d">>,
    <<" ", " ", " ", "e", ":", " ", "3">> }

ParseLineSeqs == UNION {[1..n -> ParseLinePool] : n \in 1..MaxParseLines}

ParseTexts == {JoinLines(ls) : ls \in ParseLineSeqs}

\* Empty and whitespace-only lines.
BlankLines == {<<>>, <<" ">>, <<" ", " ">>, <<" ", " ", " ", " ">>}

ValLinePool ==
  { <<"a", ":", " ", "1">>, <<"n", "a", "m", "e", ":", "\t", "J", "o", "h", "n">>,
    <<"\t", "b", ":", " ", "2">>,
    <<"#", " ", "C", "o", "m", "m", "e", "n", "t">>, <<"a", ":", " ", "1", " ", "#", "c">>,
    <<"c", "o", "n", "f", "i", "g", ":", " ", "{", "k", "e", "y", ":", " ", "v", "a", "l", "u", "e", "}">>,
    <<"g", ":", " ", "[", "1", "]">>,
    <<"d", ":", " ", "\"", "x", "\t", "#", "{", "[", "\\", "\"", "#", "\"">>,
    <<" ", "e", ":", " ", "3">>, <<"$", "h", "u", "m", "a", "n", "$", ":", " ", "n">>,
    <<"f", ":", " ", "1", " ">>, <<"-", " ", "&", "x">> }

\* Most files on the command line of the validate command.
MaxFiles == 3

\* Files: the three of test_validate.py that matter here, one that only
\* draws a warning in strict mode, and one that cannot be read.
FilePool ==
  { File(TRUE, <<"n", "a", "m", "e", ":", " ", "J", "o", "h", "n", "\n",
                 "a", "g", "e", ":", " ", "3", "0", "\n">>),
    File(TRUE, <<"#", " ", "C", "o", "m", "m", "e", "n", "t", "\n",
                 "a", ":", " ", "1", "\n">>),
    File(TRUE, <<"a", ":", "\t", "1", "\n", " ", "b", ":", " ", "{", "}", "\n">>),
    File(TRUE, <<"f", ":", " ", "1", " ", "\n">>),
    File(FALSE, <<>>) }

\* files is required: at least one.
FileLists == UNION {[1..n -> FilePool] : n \in 1..MaxFiles}

\* Most comments in a list given to the converter.
MaxComments == 2

Key_a == <<"a">>
Key_b == <<"b">>
Key_name == <<"n", "a", "m", "e">>

\* Trees given to the converter: without and with reserved keys.
PlainTrees ==
  { VMap(<<Entry(Key_name, VStr(<<"X">>))>>),
    VMap(<<Entry(Key_a, VMap(<<Entry(Key_b, VMap(<<Entry(<<"c">>, VInt(1))>>)),
                               Entry(<<"d">>, VInt(2))>>)),
           Entry(Key_name, VStr(<<"X">>))>>),
    VSeq(<<VMap(<<Entry(Key_a, VInt(1))>>), VStr(<<"s">>)>>),
    VMap(<<Entry(Key_a, VSeq(<<VMap(<<Entry(Key_b, VInt(2))>>)>>))>>),
    VMap(<<>>),
    VStr(<<"x">>) }

ReservedTrees ==
  { VMap(<<Entry(HumanKey, VStr(<<"o", "l", "d">>)), Entry(Key_a, VInt(1))>>),
    VMap(<<Entry(Key_a, VInt(1)), Entry(HumanKey, VStr(<<"o", "l", "d">>))>>),
    VMap(<<Entry(Key_a, VMap(<<Entry(Key_b, VInt(2)),
                               Entry(HumanKey, VStr(<<"i", "n">>))>>))>>),
    VMap(<<Entry(HumanKey, VStr(<<>>)), Entry(Key_a, VInt(1))>>),
    VSeq(<<VMap(<<Entry(HumanKey, VStr(<<"h">>))>>)>>) }

TreePool == PlainTrees \cup ReservedTrees

CommentPool ==
  { CommentInfo(<<>>, VNull, <<"n", "o", "t", "e">>, "line"),
    CommentInfo(<<>>, VStr(Key_name), <<"t">>, "inline"),
    CommentInfo(<<>>, VNull, <<>>, "line"),
    CommentInfo(<<Key_a>>, VNull, <<"u">>, "line"),
    CommentInfo(<<Key_a, Key_b>>, VStr(Key_a), <<"w">>, "inline"),
    CommentInfo(<<Key_a, Key_b>>, VStr(Key_b), <<"z">>, "inline"),
    CommentInfo(<<<<"0">>>>, VNull, <<"i">>, "line"),
    CommentInfo(<<Key_a, <<"0">>>>, VStr(<<>>), <<"e">>, "line") }

\* The comment lists given to a conversion that drops the comments.
ShortCommentLists == {<<>>} \cup {<<c>> : c \in CommentPool}

CommentLists == UNION {[1..n -> CommentPool] : n \in 0..MaxComments}

\* Most input files given to the convert command.
MaxInputs == 2

\* Input files in the working directory; the last one cannot be converted.
File_a == PathOf(<<>>, "a", ".yaml")
File_b == PathOf(<<>>, "b", ".yaml")
File_bad == PathOf(<<>>, "bad", ".yaml")

InputPool == {File_a, File_b, File_bad}

\* inputs is required: at least one.
InputLists == UNION {[1..n -> InputPool] : n \in 1..MaxInputs}

\* --output: an existing directory, an existing file, a path that does not
\* exist, or no option.
ExistingDir == PathOf(<<>>, "out", "")
ExistingFile == PathOf(<<>>, "one", ".d.yaml")
NewPath == PathOf(<<>>, "new", "")

OutputPool == {ExistingDir, ExistingFile, NewPath, None}

\* The file system when the convert command starts.
InitialFs ==
  [dirs |-> {ExistingDir},
   files |-> {<<File_a, "a: 1">>, <<File_b, "b: 2">>, <<File_bad, "\t">>,
              <<ExistingFile, "old">>}]

\* Converting this input raises an exception.
Raises(input_path) == input_path = File_bad

\* What the validate command prints before its JSON output.
NoOutput == [valid |-> TRUE, files |-> <<>>, none |-> TRUE]

\* Texts of the parser invocations run side by side.
SideTexts ==
  { <<"a", ":", " ", "1", "\n", "b", ":", "\n", " ", " ", "c", ":", " ", "x", "\n">>,
    <<"-", " ", "z", "\n", "-", " ", "\n", " ", " ", "-", " ", "y", "\n">>,
    <<"\n", "b", ":", "\n", "\n", " ", " ", "-", " ", "y", "\n", "a", ":", " ", "1">>,
    <<"a", ":", " ", "1", "\n", "?", "b", "a", "d">>,
    <<"x">>,
    <<" ", " ">> }

\* Inputs of the converter invocation run alongside.
SideJobs ==
  { [tree |-> VMap(<<Entry(Key_name, VStr(<<"X">>))>>),
     cs |-> <<CommentInfo(<<>>, VNull, <<"n", "o", "t", "e">>, "line")>>],
    [tree |-> VSeq(<<VMap(<<Entry(Key_a, VInt(1))>>), VStr(<<"s">>)>>),
     cs |-> <<CommentInfo(<<<<"0">>>>, VNull, <<"i">>, "line")>>] }

\* Each line ends with a newline, as in a file.
ValTexts ==
  {JoinLines(ls) \o <<"\n">> : ls \in UNION {[1..n -> ValLinePool] : n \in 1..MaxValLines}}

----------------------------------------------------------------------------
(* The state machine *)

NoResult == [valid |-> TRUE, errors |-> <<>>, warnings |-> <<>>]

\* The parser invocations run side by side.
Instances == {1, 2}

\* An invocation before RestrictedYAMLParser(text) is evaluated.
NewInstance(t) ==
  [text |-> t, stage |-> "new", ctl |-> CParse, stack |-> <<>>, res |-> VNull]

\* The attributes an object holds.
Attributes(ls, p) == [lines |-> ls, pos |-> p]

\* A converter invocation before its first call.
NewJob(tree, cs) ==
  [tree |-> tree, cs |-> cs, stage |-> "new", merged |-> VNull, plain |-> VNull]

\* self.lines and self.pos kept on the class, shared by all instances.
ClassAttribute(i) == 1

\* The object that holds self.lines and self.pos of invocation i: __init__
\* assigns them on self, the instance of the invocation.
SelfOf(i) == i

Init ==
  /\ pc = "idle"
  /\ origin = "none"
  /\ val = VNull
  /\ text = <<>>
  /\ lines = <<>>
  /\ pos = 0
  /\ result = VNull
  /\ out = <<>>
  /\ vstrict = FALSE
  /\ vline = 0
  /\ errors = <<>>
  /\ warnings = <<>>
  /\ seen = {}
  /\ vres = NoResult
  /\ anns = <<>>
  /\ merged = VNull
  /\ plain = VNull
  /\ files = <<>>
  /\ strict = FALSE
  /\ all_valid = TRUE
  /\ results = <<>>
  /\ exit_code = -1
  /\ inst = [i \in Instances |-> NewInstance(<<>>)]
  /\ heap = [o \in Instances |-> Attributes(<<>>, 0)]
  /\ job = NewJob(VNull, <<>>)
  /\ base = <<>>
  /\ json_output = FALSE
  /\ printed = NoOutput
  /\ cmd = NoCommand
  /\ disk = InitialFs
  /\ written = <<>>
  /\ done = 0

\* parse_scalar_string(tok)
DecodeScalar ==
  /\ pc = "idle"
  /\ \E tok \in Tokens :
       /\ text' = tok
       /\ result' = parse_scalar_string(tok)
  /\ pc' = "decoded"
  /\ origin' = "token"
  /\ UNCHANGED <<val, lines, pos, out, vstrict, vline, errors, warnings, seen, vres>>
  /\ UNCHANGED extVars

\* parse_scalar_string on a token between double quotes: the content c as it
\* stands, or c with the serializer's escapes applied.
DecodeQuoted ==
  /\ pc = "idle"
  /\ \E c \in Contents, encoded \in BOOLEAN :
       LET tok == IF encoded THEN Quote(c) ELSE <<"\"">> \o c \o <<"\"">>
       IN  /\ val' = VStr(c)
           /\ text' = tok
           /\ result' = parse_scalar_string(tok)
           /\ origin' = IF encoded THEN "encoded" ELSE "quoted"
  /\ pc' = "unquoted"
  /\ UNCHANGED <<lines, pos, out, vstrict, vline, errors, warnings, seen, vres>>
  /\ UNCHANGED extVars

\* text = to_deterministic_yaml(v)
SerializeValue ==
  /\ pc = "idle"
  /\ \E v \in ValuePool :
       /\ val' = v
       /\ text' = to_deterministic_yaml(v)
  /\ pc' = "text"
  /\ origin' = "value"
  /\ UNCHANGED <<lines, pos, result, out, vstrict, vline, errors, warnings, seen, vres>>
  /\ UNCHANGED extVars

\* A text handed to the parser.
LoadParseText ==
  /\ pc = "idle"
  /\ \E t \in ParseTexts : text' = t
  /\ pc' = "text"
  /\ origin' = "text"
  /\ UNCHANGED <<val, lines, pos, result, out, vstrict, vline, errors, warnings, seen, vres>>
  /\ UNCHANGED extVars

\* A text handed to the parser: the lines of base with a blank line put in
\* after line k (before the first line when k = 0).
LoadWithBlankLine ==
  /\ pc = "idle"
  /\ \E ls \in ParseLineSeqs, b \in BlankLines :
       \E k \in 0..Len(ls) :
         /\ base' = JoinLines(ls)
         /\ text' = JoinLines(SubSeq(ls, 1, k) \o <<b>> \o SubSeq(ls, k + 1, Len(ls)))
  /\ pc' = "text"
  /\ origin' = "blank"
  /\ UNCHANGED <<val, lines, pos, result, out, vstrict, vline, errors, warnings, seen, vres>>
  /\ UNCHANGED <<convVars, cliVars, concVars>>
  /\ UNCHANGED cmdVars

\* parser = RestrictedYAMLParser(text); result = parser.parse()
ParseText ==
  /\ pc = "text"
  /\ lines' = InitLines(text)
  /\ LET r == parse(InitLines(text))
     IN  result' = r.v /\ pos' = r.pos
  /\ pc' = "parsed"
  /\ UNCHANGED <<origin, val, text, out, vstrict, vline, errors, warnings, seen, vres>>
  /\ UNCHANGED extVars

\* out = to_deterministic_yaml(result)
Reserialize ==
  /\ pc = "parsed"
  /\ origin = "value"
  /\ out' = to_deterministic_yaml(result)
  /\ pc' = "reserialized"
  /\ UNCHANGED <<origin, val, text, lines, pos, result, vstrict, vline, errors,
                 warnings, seen, vres>>
  /\ UNCHANGED extVars

\* validate_string(t, strict): the scan starts.
ValidateBegin ==
  /\ pc = "idle"
  /\ \E t \in ValTexts, st \in BOOLEAN :
       /\ text' = t
       /\ lines' = Split(t, "\n")
       /\ vstrict' = st
  /\ pc' = "scan"
  /\ origin' = "text"
  /\ vline' = 0
  /\ errors' = <<>>
  /\ warnings' = <<>>
  /\ seen' = {}
  /\ UNCHANGED <<val, pos, result, out, vres>>
  /\ UNCHANGED extVars

\* validate_string(to_deterministic_yaml(v), strict): the scan starts on the
\* text the serializer has emitted.
ValidateOutput ==
  /\ pc = "text"
  /\ origin = "value"
  /\ \E st \in BOOLEAN : vstrict' = st
  /\ lines' = Split(text, "\n")
  /\ pc' = "scan"
  /\ vline' = 0
  /\ errors' = <<>>
  /\ warnings' = <<>>
  /\ seen' = {}
  /\ UNCHANGED <<origin, val, text, pos, result, out, vres>>
  /\ UNCHANGED extVars

\* The scan of one physical line.
ValidateLine ==
  /\ pc = "scan"
  /\ ~ScanDone(lines, vline, errors)
  /\ vline < Len(lines)
  /\ LET line == lines[vline + 1]
     IN  /\ errors' = errors \o LineErrors(line, vline + 1, seen)
         /\ warnings' = warnings \o LineWarnings(line, vline + 1, vstrict)
         /\ seen' = SeenAfter(line, seen)
  /\ vline' = vline + 1
  /\ UNCHANGED <<pc, origin, val, text, lines, pos, result, out, vstrict, vres>>
  /\ UNCHANGED extVars

\* The result is returned.
ValidateFinish ==
  /\ pc = "scan"
  /\ ScanDone(lines, vline, errors)
  /\ vres' = ValidationResult(errors, warnings)
  /\ pc' = "validated"
  /\ UNCHANGED <<origin, val, text, lines, pos, result, out, vstrict, vline, errors,
                 warnings, seen>>
  /\ UNCHANGED extVars

\* merged = add_human_fields(v, comments)
MergeAnnotations ==
  /\ pc = "idle"
  /\ \E v \in TreePool, cs \in CommentLists :
       /\ val' = v
       /\ anns' = cs
       /\ merged' = add_human_fields(v, cs, <<>>)
  /\ pc' = "merged"
  /\ origin' = "tree"
  /\ UNCHANGED <<textVars, plain, cliVars, concVars>>
  /\ UNCHANGED cmdVars

\* plain = strip_human_fields(merged)
StripAnnotations ==
  /\ pc = "merged"
  /\ plain' = strip_human_fields(merged)
  /\ pc' = "stripped"
  /\ UNCHANGED <<origin, val, textVars, anns, merged, cliVars, concVars>>
  /\ UNCHANGED cmdVars

\* plain = convert_yaml_to_deterministic(merged, cs, preserve_comments=False)
ConvertWithoutComments ==
  /\ pc = "merged"
  /\ \E cs \in ShortCommentLists :
       /\ anns' = cs
       /\ plain' = convert_yaml_to_deterministic(merged, cs, FALSE)
  /\ pc' = "converted"
  /\ UNCHANGED <<origin, val, textVars, merged, cliVars, concVars>>
  /\ UNCHANGED cmdVars

\* dyaml validate FILES [--strict]: the command starts.
CliValidateStart ==
  /\ pc = "idle"
  /\ \E fs \in FileLists, st \in BOOLEAN, js \in BOOLEAN :
       /\ files' = fs
       /\ strict' = st
       /\ json_output' = js
  /\ all_valid' = TRUE
  /\ results' = <<>>
  /\ pc' = "cli_loop"
  /\ origin' = "files"
  /\ UNCHANGED <<val, textVars, convVars, exit_code, printed, concVars>>
  /\ UNCHANGED cmdVars

\* One pass of `for file_path in file_paths`.
CliValidateFile ==
  /\ pc = "cli_loop"
  /\ Len(results) < Len(files)
  /\ LET f == files[Len(results) + 1]
         outcome == validate_file(f, strict)
     IN  /\ all_valid' = AllValidAfter(all_valid, outcome)
         /\ results' = ResultsAfter(results, f, outcome)
  /\ UNCHANGED <<pc, origin, val, textVars, convVars, files, strict, exit_code, json_output,
               printed, concVars>>
  /\ UNCHANGED cmdVars

\* After the loop: the results are printed and the command exits.
CliValidateExit ==
  /\ pc = "cli_loop"
  /\ Len(results) = Len(files)
  /\ printed' = IF json_output THEN OutputJson(results) ELSE NoOutput
  /\ exit_code' = ExitStatus(all_valid)
  /\ pc' = "cli_exit"
  /\ UNCHANGED <<origin, val, textVars, convVars, files, strict, all_valid, results,
               json_output, concVars>>
  /\ UNCHANGED cmdVars

\* dyaml convert INPUTS [-o OUTPUT] [--in-place]: the command starts, takes
\* its branch and, in batch mode, makes the output directory.
ConvertStart ==
  /\ pc = "idle"
  /\ \E inputs \in InputLists, output \in OutputPool, in_place \in BOOLEAN :
       LET branch == BranchOf(inputs, output, in_place, disk)
       IN  /\ cmd' = [inputs |-> inputs, output |-> output, in_place |-> in_place,
                      branch |-> branch]
           /\ disk' = IF branch = "batch" /\ ~exists(disk, output) THEN mkdir(disk, output) ELSE disk
           /\ IF branch \in UsageErrors
              THEN exit_code' = 2 /\ pc' = "cv_exit"
              ELSE exit_code' = exit_code /\ pc' = "cv_run"
  /\ origin' = "convert"
  /\ UNCHANGED <<val, textVars, convVars, concVars, written, done>>
  /\ UNCHANGED <<files, strict, all_valid, results, json_output, printed>>

\* _convert_single_file for the next input: an exception ends the command
\* with status 1, else the text goes to the target.
ConvertOne ==
  /\ pc = "cv_run"
  /\ done < Len(cmd.inputs)
  /\ LET input_path == cmd.inputs[done + 1]
         target == TargetOf(cmd, input_path, disk)
     IN  IF Raises(input_path) \/ (target # Stdout /\ is_dir(disk, target))
         THEN /\ exit_code' = 1
              /\ pc' = "cv_exit"
              /\ UNCHANGED <<disk, written, done>>
         ELSE /\ disk' = IF target = Stdout THEN disk
                       ELSE WriteFile(disk, target, ConvertedFrom(input_path))
              /\ written' = Append(written, <<input_path, target>>)
              /\ done' = done + 1
              /\ UNCHANGED <<pc, exit_code>>
  /\ UNCHANGED <<origin, val, textVars, convVars, concVars, cmd>>
  /\ UNCHANGED <<files, strict, all_valid, results, json_output, printed>>

\* convert returns: the command exits with status 0.
ConvertExit ==
  /\ pc = "cv_run"
  /\ done = Len(cmd.inputs)
  /\ exit_code' = 0
  /\ pc' = "cv_exit"
  /\ UNCHANGED <<origin, val, textVars, convVars, concVars, cmdVars>>
  /\ UNCHANGED <<files, strict, all_valid, results, json_output, printed>>

\* Two parser invocations and a converter invocation are set off.
RunSideBySide ==
  /\ pc = "idle"
  /\ \E t1 \in SideTexts, t2 \in SideTexts, j \in SideJobs :
       /\ inst' = [i \in Instances |-> NewInstance(IF i = 1 THEN t1 ELSE t2)]
       /\ job' = NewJob(j.tree, j.cs)
  /\ pc' = "side"
  /\ origin' = "side"
  /\ UNCHANGED <<val, textVars, convVars, cliVars, heap>>
  /\ UNCHANGED cmdVars

\* One parser invocation is set off on a text, to be followed step by step.
RunAlone ==
  /\ pc = "idle"
  /\ \E t \in ParseTexts :
       inst' = [i \in Instances |->
                  IF i = 1 THEN NewInstance(t) ELSE [NewInstance(<<>>) EXCEPT !.stage = "off"]]
  /\ pc' = "alone"
  /\ origin' = "alone"
  /\ UNCHANGED <<val, textVars, convVars, cliVars, heap, job>>
  /\ UNCHANGED cmdVars

\* parser = RestrictedYAMLParser(text) of invocation i.
Construct(i) ==
  /\ pc \in {"side", "alone"}
  /\ inst[i].stage = "new"
  /\ heap' = [heap EXCEPT ![SelfOf(i)] = Attributes(InitLines(inst[i].text), 0)]
  /\ inst' = [inst EXCEPT ![i].stage = "running"]
  /\ UNCHANGED <<pc, origin, val, textVars, convVars, cliVars, job>>
  /\ UNCHANGED cmdVars

\* One step of parser.parse() of invocation i.
ParseOneStep(i) ==
  /\ pc \in {"side", "alone"}
  /\ inst[i].stage = "running"
  /\ LET self == heap[SelfOf(i)]
         m == ParserStep(self.lines, Machine(inst[i].ctl, inst[i].stack, self.pos))
     IN  /\ heap' = [heap EXCEPT ![SelfOf(i)].pos = m.pos]
         /\ inst' = [inst EXCEPT ![i] =
                       IF m.ctl.k = "done"
                       THEN [@ EXCEPT !.stage = "done", !.ctl = m.ctl, !.res = m.ctl.v]
                       ELSE [@ EXCEPT !.ctl = m.ctl, !.stack = m.stack]]
  /\ UNCHANGED <<pc, origin, val, textVars, convVars, cliVars, job>>
  /\ UNCHANGED cmdVars

\* add_human_fields(tree, comments) of the converter invocation.
JobMerge ==
  /\ pc = "side"
  /\ job.stage = "new"
  /\ job' = [job EXCEPT !.stage = "merged",
                         !.merged = add_human_fields(job.tree, job.cs, <<>>)]
  /\ UNCHANGED <<pc, origin, val, textVars, convVars, cliVars, inst, heap>>
  /\ UNCHANGED cmdVars

\* strip_human_fields(merged) of the converter invocation.
JobStrip ==
  /\ pc = "side"
  /\ job.stage = "merged"
  /\ job' = [job EXCEPT !.stage = "done", !.plain = strip_human_fields(job.merged)]
  /\ UNCHANGED <<pc, origin, val, textVars, convVars, cliVars, inst, heap>>
  /\ UNCHANGED cmdVars

Next ==
  \/ DecodeScalar
  \/ DecodeQuoted
  \/ SerializeValue
  \/ LoadParseText
  \/ LoadWithBlankLine
  \/ ParseText
  \/ Reserialize
  \/ ValidateBegin
  \/ ValidateOutput
  \/ ValidateLine
  \/ ValidateFinish
  \/ MergeAnnotations
  \/ StripAnnotations
  \/ ConvertWithoutComments
  \/ CliValidateStart
  \/ CliValidateFile
  \/ CliValidateExit
  \/ ConvertStart
  \/ ConvertOne
  \/ ConvertExit
  \/ RunSideBySide
  \/ RunAlone
  \/ \E i \in Instances : Construct(i)
  \/ \E i \in Instances : ParseOneStep(i)
  \/ JobMerge
  \/ JobStrip

Spec == Init /\ [][Next]_vars

\* The convert command alone.
NextCliConvert == ConvertStart \/ ConvertOne \/ ConvertExit

SpecCliConvert == Init /\ [][NextCliConvert]_vars

\* Scalar decoding alone.
SpecScalar == Init /\ [][DecodeScalar]_vars

\* Decoding of quoted tokens alone.
SpecQuoted == Init /\ [][DecodeQuoted]_vars

\* Serialize, parse, serialize again.
NextRoundTrip == SerializeValue \/ ParseText \/ Reserialize

SpecRoundTrip == Init /\ [][NextRoundTrip]_vars

\* The parser on raw text.
NextParse == LoadParseText \/ ParseText

SpecParse == Init /\ [][NextParse]_vars

\* The parser on a text with a blank line put in.
NextBlank == LoadWithBlankLine \/ ParseText

SpecBlank == Init /\ [][NextBlank]_vars

\* The validator on raw text.
NextValidate == ValidateBegin \/ ValidateLine \/ ValidateFinish

SpecValidate == Init /\ [][NextValidate]_vars

\* The validator on serializer output.
NextEmitValidate == SerializeValue \/ ValidateOutput \/ ValidateLine \/ ValidateFinish

SpecEmitValidate == Init /\ [][NextEmitValidate]_vars

\* The converter: merge, then strip.
NextConvert == MergeAnnotations \/ StripAnnotations \/ ConvertWithoutComments

SpecConvert == Init /\ [][NextConvert]_vars

\* The validate command.
NextCliValidate == CliValidateStart \/ CliValidateFile \/ CliValidateExit

SpecCliValidate == Init /\ [][NextCliValidate]_vars

\* Invocations on separate instances, their steps in any order.
NextSideBySide ==
  \/ RunSideBySide
  \/ \E i \in Instances : Construct(i)
  \/ \E i \in Instances : ParseOneStep(i)
  \/ JobMerge
  \/ JobStrip

SpecSideBySide == Init /\ [][NextSideBySide]_vars

\* One parser invocation, step by step.
NextAlone ==
  \/ RunAlone
  \/ \E i \in Instances : Construct(i)
  \/ \E i \in Instances : ParseOneStep(i)

SpecAlone == Init /\ [][NextAlone]_vars

\* Invocation 1 has a step to take: the constructor call, or a step of parse.
Running == pc = "alone" /\ inst[1].stage \in {"new", "running"}

\* The same, with the interpreter running the invocation on: weak fairness of
\* its steps, WF_vars(NextAlone), written out with Running for the enabling
\* condition of a step (StepPossible below).
SpecAloneFair ==
  /\ SpecAlone
  /\ ([]<>(~Running) \/ []<><<NextAlone>>_vars)

----------------------------------------------------------------------------
(* Helpers of the properties *)

\* A Value with the entries of every mapping in key order: two Values are
\* equal as Python objects iff their canonical forms are identical.
RECURSIVE Canon(_)
Canon(v) ==
  IF v.t = "map"
  THEN VMap(SortByKey([i \in 1..Len(v.es) |-> Entry(v.es[i].k, Canon(v.es[i].v))]))
  ELSE IF v.t = "seq" THEN VSeq([i \in 1..Len(v.xs) |-> Canon(v.xs[i])])
  ELSE v

\* The orders in which the entries es can be listed.
Orders(es) ==
  {[i \in 1..Len(es) |-> es[f[i]]] :
     f \in {g \in [1..Len(es) -> 1..Len(es)] :
              \A i, j \in 1..Len(es) : i # j => g[i] # g[j]}}

\* Every Value equal to v: the entries of each of its mappings in any order.
RECURSIVE Reorderings(_)
RECURSIVE ItemChoices(_)
RECURSIVE EntryChoices(_)

ItemChoices(xs) ==
  IF xs = <<>> THEN {<<>>}
  ELSE {<<h>> \o t : h \in Reorderings(Head(xs)), t \in ItemChoices(Tail(xs))}

EntryChoices(es) ==
  IF es = <<>> THEN {<<>>}
  ELSE {<<Entry(Head(es).k, h)>> \o t :
          h \in Reorderings(Head(es).v), t \in EntryChoices(Tail(es))}

Reorderings(v) ==
  IF v.t = "map" THEN {VMap(es) : es \in UNION {EntryChoices(o) : o \in Orders(v.es)}}
  ELSE IF v.t = "seq" THEN {VSeq(xs) : xs \in ItemChoices(v.xs)}
  ELSE {v}

\* The key that a line of serializer output opens, <<>> when it opens none.
OutputKey(line) ==
  LET stripped == LStrip(line)
  IN  IF StartsWith(stripped, HumanKey \o <<":">>) THEN HumanKey
      ELSE SubSeq(stripped, 1, KeyLen(stripped))

\* Lines i < j of ls are key lines of one mapping block: same indentation and
\* only deeper lines between them.
Siblings(ls, i, j) ==
  /\ i < j
  /\ OutputKey(ls[i]) # <<>>
  /\ OutputKey(ls[j]) # <<>>
  /\ IndentSpaces(ls[i]) = IndentSpaces(ls[j])
  /\ \A m \in (i + 1)..(j - 1) : IndentSpaces(ls[m]) > IndentSpaces(ls[i])

TextLines(t) == Split(t, "\n")

----------------------------------------------------------------------------
(* Properties *)

\* C1: round trip: parsing the serialization of any Value gives that Value
\* back (equal as a Value, sequence items in their order).
C1_RoundTrip ==
  (pc = "parsed" /\ origin = "value") => Canon(result) = Canon(val)

\* C2: canonical stability: serializing the parse of a canonical text gives
\* the same text byte for byte.
C2_CanonicalStability ==
  pc = "reserialized" => out = text

\* C3: the serializer's output does not depend on the order in which the
\* entries of a mapping were inserted: every Value equal to the one
\* serialized yields the same text.
C3_Deterministic ==
  (pc = "text" /\ origin = "value")
    => \A w \in Reorderings(val) : to_deterministic_yaml(w) = text

\* C3 witness: a mapping whose insertion order is not the emitted order, with
\* a nested mapping, has been serialized.
C3_Witness ==
  /\ pc = "text" /\ origin = "value"
  /\ val.t = "map" /\ Len(val.es) = 2
  /\ StrLess(val.es[2].k, val.es[1].k)
  /\ val.es[1].v.t = "map" /\ Len(val.es[1].v.es) = 2
  /\ Cardinality(Reorderings(val)) = 4

\* C4: in serializer output, among the key lines of one mapping the reserved
\* key is never preceded by another key nor repeated, and the other keys are
\* in strictly ascending byte order; no key of the mapping is left out.
C4_KeyOrder ==
  (pc = "text" /\ origin = "value") =>
    LET ls == TextLines(text)
    IN  /\ \A i, j \in 1..Len(ls) :
             Siblings(ls, i, j) =>
               /\ OutputKey(ls[j]) # HumanKey
               /\ OutputKey(ls[i]) = HumanKey \/ StrLess(OutputKey(ls[i]), OutputKey(ls[j]))
        /\ (val.t = "map" /\ val.es # <<>>) =>
             /\ Cardinality({i \in 1..Len(ls) :
                               OutputKey(ls[i]) # <<>> /\ IndentSpaces(ls[i]) = 0})
                  = Len(val.es)
             /\ (\E e \in 1..Len(val.es) : val.es[e].k = HumanKey)
                  => OutputKey(ls[1]) = HumanKey

\* C4 witness: a mapping with the reserved key inserted between two keys in
\* descending order, and the same in a mapping nested in it, has been
\* serialized, the reserved key on its first line.
C4_Witness ==
  /\ pc = "text" /\ origin = "value"
  /\ val = Annotated
  /\ StartsWith(text, HumanKey \o <<":", " ", "n", "o", "t", "e", "\n", "Z", ":">>)

\* A number token written the way the serializer writes integers: no
\* leading zero and no negative zero.
PlainNumber(s) ==
  LET d == IF Head(s) = "-" THEN Tail(s) ELSE s
  IN  MatchesNumber(s) /\ (Len(d) = 1 \/ Head(d) # "0") /\ s # <<"-", "0">>

\* C5: scalar decoding by kind, in the order null, bool, int, quoted string,
\* identifier: null is Null, true/false are Bool, -?[0-9]+ is Int (30 is
\* Int 30), a double-quoted token is the Str of its content (quoted true is
\* Str "true"), an identifier is the Str of itself.
C5_ScalarClassification ==
  pc = "decoded" =>
    LET s == Strip(text)
    IN  /\ s = <<"n", "u", "l", "l">> => result = VNull
        /\ s = <<"t", "r", "u", "e">> => result = VBool(TRUE)
        /\ s = <<"f", "a", "l", "s", "e">> => result = VBool(FALSE)
        /\ MatchesNumber(s) =>
             /\ result.t = "int"
             /\ PlainNumber(s) => IntToStr(result.i) = s
        /\ s = <<"3", "0">> => result = VInt(30)
        /\ MatchesQuoted(s) =>
             /\ result.t = "str"
             /\ (\A i \in 1..Len(s) : s[i] # "\\") => result.s = Inner(s)
        /\ s = <<"\"", "t", "r", "u", "e", "\"">> => result = VStr(<<"t", "r", "u", "e">>)
        /\ (MatchesIdent(s) /\ ~SpellsOtherScalar(s)) => result = VStr(s)

\* C5 witness: the quoted token "true" has been decoded, to a string.
C5_Witness ==
  /\ pc = "decoded"
  /\ text = <<"\"", "t", "r", "u", "e", "\"">>
  /\ result = VStr(<<"t", "r", "u", "e">>)

\* C6: parse is all-or-nothing: when it returns a Value, no non-blank line is
\* left unconsumed after the cursor.  (No path of parse raises: reaching
\* "parsed" is parse returning.)
C6_AllOrNothing ==
  (pc = "parsed" /\ origin = "text") =>
    \A j \in (pos + 1)..Len(lines) : Strip(lines[j]) = <<>>

\* A `key:` or `- ` line with nothing after the marker.
Opener(line) ==
  LET stripped == LStrip(line)
  IN  \/ KeyLen(stripped) > 0 /\ Strip(Drop(stripped, KeyLen(stripped) + 1)) = <<>>
      \/ StartsWith(stripped, <<"-", " ">>) /\ Strip(Drop(stripped, 2)) = <<>>

\* Line j of ls is indented deeper than its place allows: deeper than the
\* line before it, which opens no block, or more than one level deeper than
\* its opener, or indented as the first line.
UnjustifiedDeep(ls, j) ==
  /\ Strip(ls[j]) # <<>>
  /\ IF j = 1 THEN IndentLevel(ls[j]) > 0
     ELSE /\ Strip(ls[j - 1]) # <<>>
          /\ IndentLevel(ls[j]) > IndentLevel(ls[j - 1])
          /\ Opener(ls[j - 1]) => IndentLevel(ls[j]) > IndentLevel(ls[j - 1]) + 1

\* C7: a text with a line indented deeper than expected, with no opener
\* justifying it, is not parsed to a value.
C7_DeepIndentFails ==
  (pc = "parsed" /\ origin = "text") =>
    ~\E j \in 1..Len(lines) : UnjustifiedDeep(lines, j)

\* C8: the validation result is valid iff it holds no error finding; its
\* errors are the findings of severity error and its warnings those of
\* severity warning, so warnings do not count.
C8_ValidIffNoErrors ==
  pc = "validated" =>
    /\ vres.valid <=> vres.errors = <<>>
    /\ \A i \in 1..Len(vres.errors) : vres.errors[i].severity = "error"
    /\ \A i \in 1..Len(vres.warnings) : vres.warnings[i].severity = "warning"

\* C8 witness: a strict validation has ended valid with a warning.
C8_Witness ==
  /\ pc = "validated" /\ vstrict
  /\ vres.valid /\ vres.warnings # <<>>

\* A line with a lexical violation.
LineViolates(line) ==
  HasTab(line) \/ HasComment(line) \/ HasFlow(line) \/ HasAnchor(line) \/ BadIndent(line)

\* C9: the validator always goes on: while scanning, a step is possible; it
\* returns only after the last line; and every violating line has an error
\* finding in the result, whatever the lines before it held.
C9_ScansEveryLine ==
  /\ pc = "scan" => (vline <= Len(lines) /\ ENABLED (ValidateLine \/ ValidateFinish))
  /\ pc = "validated" =>
       /\ vline = Len(lines)
       /\ \A j \in 1..Len(lines) :
            LineViolates(lines[j]) => \E i \in 1..Len(vres.errors) : vres.errors[i].line = j

\* C9 witness: a result that reports violations of line 1 and of line 2.
C9_Witness ==
  /\ pc = "validated"
  /\ \E i, j \in 1..Len(vres.errors) : vres.errors[i].line = 1 /\ vres.errors[j].line = 2

\* Character c occurs in line outside a quoted string.
OccursOutside(line, c) ==
  \E i \in 1..Len(line) : line[i] = c /\ OutsideFrom(line, 1, FALSE)[i]

Reported(n, msg) ==
  \E i \in 1..Len(vres.errors) : vres.errors[i].line = n /\ vres.errors[i].message = msg

\* C10: a tab, a comment marker or a flow-style opener outside quotes on line
\* n makes the result invalid, with an error of that kind on line n.
C10_ForbiddenReported ==
  pc = "validated" =>
    \A n \in 1..Len(lines) :
      /\ OccursOutside(lines[n], "\t") => ~vres.valid /\ Reported(n, "tab")
      /\ OccursOutside(lines[n], "#") => ~vres.valid /\ Reported(n, "comment")
      /\ (OccursOutside(lines[n], "{") \/ OccursOutside(lines[n], "["))
           => ~vres.valid /\ Reported(n, "flow style")

\* C10 witness: line 1 holds the forbidden characters inside quotes only and
\* line 2 a comment after a value; the result has a comment error on line 2
\* and nothing on line 1.
C10_Witness ==
  /\ pc = "validated"
  /\ Len(lines) = 3
  /\ "#" \in {lines[1][i] : i \in 1..Len(lines[1])}
  /\ lines[2] = <<"a", ":", " ", "1", " ", "#", "c">>
  /\ vres.errors = <<Finding(2, "comment", "error")>>

\* Value v holds an empty mapping or an empty sequence, at any depth.
RECURSIVE HasEmptyCollection(_)
HasEmptyCollection(v) ==
  IF v.t = "map"
  THEN v.es = <<>> \/ \E i \in 1..Len(v.es) : HasEmptyCollection(v.es[i].v)
  ELSE IF v.t = "seq"
  THEN v.xs = <<>> \/ \E i \in 1..Len(v.xs) : HasEmptyCollection(v.xs[i])
  ELSE FALSE

RECURSIVE HasReservedKey(_)
HasReservedKey(v) ==
  IF v.t = "map"
  THEN \E i \in 1..Len(v.es) : v.es[i].k = HumanKey \/ HasReservedKey(v.es[i].v)
  ELSE IF v.t = "seq" THEN \E i \in 1..Len(v.xs) : HasReservedKey(v.xs[i])
  ELSE FALSE

\* Mapping m has an entry for the reserved key.
HasHumanEntry(m) == m.t = "map" /\ \E i \in 1..Len(m.es) : m.es[i].k = HumanKey

\* Mapping m with the entry reserved key -> t.
WithHuman(m, t) == VMap(DictSet(m.es, HumanKey, VStr(t)))

\* The comment list is one comment at the root path with a non-empty text.
OneRootComment ==
  Len(anns) = 1 /\ anns[1].key_path = <<>> /\ anns[1].text # <<>>

\* C12 as stated: strip after merge gives back a tree without reserved key,
\* and one comment at the root with text t adds reserved key -> t to a mapping.
C12_MergeStripAsStated ==
  /\ (pc = "stripped" /\ ~HasReservedKey(val)) => Canon(plain) = Canon(val)
  /\ (pc = "merged" /\ val.t = "map" /\ OneRootComment)
       => Canon(merged) = Canon(WithHuman(val, anns[1].text))

\* C12: strip after merge gives back every tree that holds no reserved key,
\* whatever the comments; and one comment at the root path with no
\* associated key and a non-empty text t, merged into a mapping that has no
\* reserved key entry, gives that mapping plus the entry reserved key -> t.
C12_MergeStripIdentity ==
  /\ (pc = "stripped" /\ ~HasReservedKey(val)) => Canon(plain) = Canon(val)
  /\ (pc = "merged" /\ val.t = "map" /\ OneRootComment
        /\ anns[1].associated_key = VNull /\ ~HasHumanEntry(val))
       => Canon(merged) = Canon(WithHuman(val, anns[1].text))

\* C12 witness: {name: X} merged with the comment "note" at the root is
\* {reserved: note, name: X}, and stripping that gave {name: X} back.
C12_Witness ==
  /\ pc = "stripped"
  /\ val = VMap(<<Entry(Key_name, VStr(<<"X">>))>>)
  /\ merged = VMap(<<Entry(HumanKey, VStr(<<"n", "o", "t", "e">>)),
                     Entry(Key_name, VStr(<<"X">>))>>)
  /\ plain = val

\* The paths into v: the key, or the decimal index, of each step.
RECURSIVE Paths(_)
Paths(v) ==
  IF v.t = "map"
  THEN {<<>>} \cup UNION {{<<v.es[i].k>> \o q : q \in Paths(v.es[i].v)} : i \in 1..Len(v.es)}
  ELSE IF v.t = "seq"
  THEN {<<>>} \cup UNION {{<<NatToStr(i - 1)>> \o q : q \in Paths(v.xs[i])} : i \in 1..Len(v.xs)}
  ELSE {<<>>}

\* The value at path p of v (p in Paths(v), or in Paths of a tree of the same
\* shape but for reserved keys).
RECURSIVE At(_, _)
At(v, p) ==
  IF p = <<>> THEN v
  ELSE IF v.t = "map"
       THEN At(v.es[CHOOSE i \in 1..Len(v.es) : v.es[i].k = Head(p)].v, Tail(p))
  ELSE At(v.xs[CHOOSE i \in 1..Len(v.xs) : NatToStr(i - 1) = Head(p)], Tail(p))

\* The text under the reserved key of mapping m, empty when it has none.
HumanText(m) ==
  IF HasHumanEntry(m) THEN (m.es[CHOOSE i \in 1..Len(m.es) : m.es[i].k = HumanKey].v).s
  ELSE <<>>

\* "<associated_key>: <text>", or the bare text without associated key.
Fragment(c) ==
  IF c.associated_key \in {VNull, VStr(<<>>)} THEN c.text
  ELSE c.associated_key.s \o <<":", " ">> \o c.text

\* The fragments of the comments cs[i], i in S, in list order from index n
\* on, joined with " | ".
RECURSIVE JoinedFragments(_, _, _)
JoinedFragments(cs, S, n) ==
  IF n > Len(cs) THEN <<>>
  ELSE IF n \notin S THEN JoinedFragments(cs, S, n + 1)
  ELSE IF \E j \in S : j > n
       THEN Fragment(cs[n]) \o <<" ", "|", " ">> \o JoinedFragments(cs, S, n + 1)
  ELSE Fragment(cs[n])

FileValid(f) == f.readable /\ validate_string(f.content, strict).valid

\* C14: the validate command processes every file given, in order, whatever
\* the files before it did: each has its entry in the results, the validation
\* result or None when validating it raised; and the exit status is 0 iff
\* every file was validated and valid, 1 otherwise.
C14_ValidateExitStatus ==
  pc = "cli_exit" =>
    /\ Len(results) = Len(files)
    /\ \A i \in 1..Len(files) :
         /\ results[i][1] = files[i]
         /\ results[i][2] = IF files[i].readable
                            THEN validate_string(files[i].content, strict)
                            ELSE None
    /\ exit_code = 0 <=> \A i \in 1..Len(files) : FileValid(files[i])
    /\ (\E i \in 1..Len(files) : ~FileValid(files[i])) => exit_code = 1

\* C14 witness: the first file is invalid, the second cannot be read, the
\* third is valid: all three were processed and the command exits 1.
C14_Witness ==
  /\ pc = "cli_exit"
  /\ Len(files) = 3 /\ Len(results) = 3
  /\ files[1].readable /\ ~FileValid(files[1])
  /\ ~files[2].readable
  /\ FileValid(files[3]) /\ results[3][2].valid
  /\ exit_code = 1

\* The lines of text t up to its last newline.
EmittedLines(t) == LET ls == Split(t, "\n") IN SubSeq(ls, 1, Len(ls) - 1)

TrailingWhitespace(line) == line # <<>> /\ line[Len(line)] \in {" ", "\t", "\r"}

\* Text t is lines that each end with one newline, the last included, with
\* no empty line among them.
NewlineTerminated(t) ==
  /\ t # <<>> /\ t[Len(t)] = "\n"
  /\ \A i \in 1..Len(EmittedLines(t)) : EmittedLines(t)[i] # <<>>

\* Line i of ls is `<indent>- ` opening the nested block on the next lines.
OpensNestedItem(ls, i) ==
  /\ LStrip(ls[i]) = <<"-", " ">>
  /\ i < Len(ls)
  /\ IndentSpaces(ls[i + 1]) = IndentSpaces(ls[i]) + IndentUnit

C17_Independent ==
  pc = "side" =>
    /\ \A i \in Instances :
         /\ inst[i].stage \in {"running", "done"}
              => heap[SelfOf(i)].lines = InitLines(inst[i].text)
         /\ inst[i].stage = "done"
              => /\ inst[i].res = parse_restricted_yaml(inst[i].text).v
                 /\ heap[SelfOf(i)].pos = parse_restricted_yaml(inst[i].text).pos
    /\ job.stage \in {"merged", "done"}
         => HumanText(At(job.merged, job.cs[1].key_path)) = job.cs[1].text
    /\ job.stage = "done" => job.plain = job.tree

\* C17 witness: invocation 1 has returned a mapping while invocation 2, on
\* another text, is inside a nested parse_element and the converter
\* invocation is between its merge and its strip.
C17_Witness ==
  /\ pc = "side"
  /\ inst[1].stage = "done" /\ inst[1].res.t = "map"
  /\ inst[2].stage = "running" /\ inst[2].stack # <<>>
  /\ inst[1].text # inst[2].text
  /\ job.stage = "merged"

\* C18: a text with an empty or whitespace-only line put in anywhere (at the
\* start, between two lines, at the end) parses to the Value of the text
\* without it.
C18_BlankLinesIgnorable ==
  (pc = "parsed" /\ origin = "blank")
    => Canon(result) = Canon(parse_restricted_yaml(base).v)

\* C19: parse_element at level L, with the cursor on any line of the text,
\* consumes the line (moves the cursor or returns a value) only if the line
\* has exactly 2 * L leading spaces; so a line with an odd number of leading
\* spaces is consumed at no level.
C19_ExactIndentOnly ==
  (pc = "parsed" /\ origin = "text") =>
    \A p \in 0..(Len(lines) - 1), L \in 0..MaxParseLines :
      LET e == parse_element(lines, p, L)
      IN  (e.pos > p \/ e.v # VNull) => IndentSpaces(lines[p + 1]) = IndentUnit * L

\* The cursor of the first line after line p that is not blank, or Len(ls)
\* when every later line is blank.
NextContent(ls, p) ==
  LET later == {j \in (p + 1)..(Len(ls) - 1) : Strip(ls[j + 1]) # <<>>}
  IN  IF later = {} THEN Len(ls)
      ELSE CHOOSE j \in later : \A i \in later : j <= i

\* C20: for a line `key:` + rest at level L, parse_pair(L) returns the key
\* with: the decoded scalar when rest is a non-empty scalar token; the result
\* of parse_element(L + 1) started on the next content line when rest is
\* empty and that line is at level L + 1; Null, with the cursor just after
\* the key line, when rest is empty and the next content line is at level
\* <= L or there is none.
C20_PairValue ==
  (pc = "parsed" /\ origin = "text") =>
    \A p \in 0..(Len(lines) - 1) :
      LET line == lines[p + 1]
          L == IndentLevel(line)
          n == KeyLen(LStrip(line))
          rest == Strip(Drop(LStrip(line), n + 1))
          pair == parse_pair(lines, p, L)
          j == NextContent(lines, p)
      IN  n > 0 =>
            /\ pair.ok
            /\ pair.k = SubSeq(LStrip(line), 1, n)
            /\ (rest # <<>> /\ is_scalar(rest)) =>
                 (pair.v = parse_scalar_string(rest) /\ pair.pos = p + 1)
            /\ (rest = <<>> /\ j < Len(lines) /\ IndentLevel(lines[j + 1]) = L + 1) =>
                 LET e == parse_element(lines, j, L + 1)
                 IN  pair.v = e.v /\ pair.pos = e.pos
            /\ (rest = <<>> /\ (j = Len(lines) \/ IndentLevel(lines[j + 1]) <= L)) =>
                 (pair.v = VNull /\ pair.pos = p + 1)

\* The first key has nothing after the colon and a line at its own level
\* next, so its value is Null; the second has nothing after the colon and a
\* line one level deeper next, so its value is the mapping parsed there, whose
\* pair takes its same-line scalar.
C20_Witness ==
  /\ pc = "parsed"
  /\ origin = "text"
  /\ lines = << <<"b", ":">>, <<"b", ":">>, <<" ", " ", "c", ":", " ", "x">> >>
  /\ parse_pair(lines, 0, 0) = [ok |-> TRUE, k |-> <<"b">>, v |-> VNull, pos |-> 1]
  /\ result = VMap(<<Entry(<<"b">>, VMap(<<Entry(<<"c">>, VStr(<<"x">>))>>))>>)

\* The lines ls with the item line `- r` at cursor p rewritten as the pair
\* line `k: r` at the same indentation.
AsPairLine(ls, p) ==
  LET line == ls[p + 1]
      r == LStrip(Drop(LStrip(line), 2))
  IN  [ls EXCEPT ![p + 1] = SubSeq(line, 1, IndentSpaces(line)) \o <<"k", ":", " ">> \o r]

\* C21: for every item line `- r` at level L of a text, the value parse_list
\* appends for it and the cursor after it are the value and the cursor that
\* parse_pair gives for `k: r` at level L over the same following lines.
C21_ItemLikePair ==
  (pc = "parsed" /\ origin = "text") =>
    \A p \in 0..(Len(lines) - 1) :
      LET line == lines[p + 1]
          L == IndentLevel(line)
          item == parse_item(lines, p, L)
          pair == parse_pair(AsPairLine(lines, p), p, L)
      IN  StartsWith(LStrip(line), <<"-", " ">>) =>
            (pair.ok /\ item.v = pair.v /\ item.pos = pair.pos)

\* The cursor of the first content line at or after line p whose level is
\* below indent, or Len(ls) when there is none.
FirstBelow(ls, p, indent) ==
  LET below == {j \in p..(Len(ls) - 1) :
                  Strip(ls[j + 1]) # <<>> /\ IndentLevel(ls[j + 1]) < indent}
  IN  IF below = {} THEN Len(ls)
      ELSE CHOOSE j \in below : \A i \in below : j <= i

\* The key lines at level indent among the lines p .. j - 1.
SiblingLines(ls, p, j, indent) ==
  {i \in p..(j - 1) : IndentLevel(ls[i + 1]) = indent /\ KeyLen(LStrip(ls[i + 1])) > 0}

KeyOfLine(line) == SubSeq(LStrip(line), 1, KeyLen(LStrip(line)))

\* C22: parse_mapping started on a key line at level L stops on the first
\* content line whose level is below L, with the cursor on that line, and the
\* keys of the mapping it returns are the keys of the pair lines at level L
\* before that line: no sibling pair is dropped, none comes from elsewhere.
C22_SiblingsKept ==
  (pc = "parsed" /\ origin = "text") =>
    \A p \in 0..(Len(lines) - 1) :
      LET line == lines[p + 1]
          L == IndentLevel(line)
          r == parse_mapping(lines, p, L)
          j == FirstBelow(lines, p, L)
      IN  KeyLen(LStrip(line)) > 0 =>
            /\ j < Len(lines) => r.pos = j
            /\ {r.v.es[i].k : i \in 1..Len(r.v.es)}
                 = {KeyOfLine(lines[i + 1]) : i \in SiblingLines(lines, p, j, L)}

\* The character a two-character escape stands for.
EscapeLetters == {"n", "t", "r", "\\", "\""}

Escaped(c) ==
  IF c = "n" THEN "\n" ELSE IF c = "t" THEN "\t" ELSE IF c = "r" THEN "\r" ELSE c

\* The number of backslashes that end at position k of content.
RECURSIVE BackslashRun(_, _)
BackslashRun(content, k) ==
  IF k >= 1 /\ content[k] = "\\" THEN 1 + BackslashRun(content, k - 1) ELSE 0

Decoded(content) == parse_quoted_string(<<"\"">> \o content \o <<"\"">>)

\* C23: decoding between the quotes: a single character is itself; backslash
\* + n, t, r, backslash, quote is newline, tab, carriage return, backslash,
\* quote; backslash + any other c is backslash, c; a content cut at a place
\* that is not inside an escape (an even run of backslashes before the cut)
\* decodes to the decoding of the left part followed by that of the right
\* part (left to right); and the quoted encoding of s decodes to s.
C23_QuotedDecoding ==
  /\ (pc = "unquoted" /\ origin = "quoted") =>
       LET content == val.s
       IN  /\ result = VStr(Decoded(content))
           /\ Len(content) <= 1 => result.s = content
           /\ (Len(content) = 2 /\ content[1] = "\\") =>
                result.s = IF content[2] \in EscapeLetters
                           THEN <<Escaped(content[2])>> ELSE content
           /\ \A k \in 1..(Len(content) - 1) :
                BackslashRun(content, k) % 2 = 0 =>
                  result.s = Decoded(SubSeq(content, 1, k))
                               \o Decoded(SubSeq(content, k + 1, Len(content)))
  /\ (pc = "unquoted" /\ origin = "encoded") => result = val

\* The content backslash, backslash, n has been decoded to backslash, n: the
\* escaped backslash is taken first and the n after it is a plain letter.
C23_Witness ==
  /\ pc = "unquoted"
  /\ origin = "quoted"
  /\ val.s = <<"\\", "\\", "n">>
  /\ result.s = <<"\\", "n">>

\* C24: a token that opens with a double quote and is not a terminated quoted
\* string (QUOTED_PATTERN does not match it) is never decoded to a Str.
C24_UnterminatedRejected ==
  (pc = "decoded" /\ origin = "token") =>
    LET s == Strip(text)
    IN  (StartsWith(s, <<"\"">>) /\ ~MatchesQuoted(s)) => result.t # "str"

\* The comments of cs whose key_path is p.
AtPath(cs, p) == {i \in 1..Len(cs) : cs[i].key_path = p}

\* C25: for every mapping of the tree that had no reserved key, the reserved
\* key value after the merge is made of the comments whose key_path is the
\* path of the mapping and of no other comment.
C25_OnlyAtKeyPath ==
  pc = "merged" =>
    \A p \in Paths(val) :
      (At(val, p).t = "map" /\ ~HasHumanEntry(At(val, p))) =>
        HumanText(At(merged, p)) = JoinedFragments(anns, AtPath(anns, p), 1)

\* The number of reserved-key entries of mapping m.
HumanEntries(m) == Cardinality({i \in 1..Len(m.es) : m.es[i].k = HumanKey})

KeysOf(m) == [i \in 1..Len(m.es) |-> m.es[i].k]

\* Tree b is tree a but for the reserved keys: the paths of b are the paths
\* of a that do not go through a reserved key, and at each of them b has the
\* scalar of a, the other keys of a in the order of a, or the length of a.
SameButReserved(a, b) ==
  /\ Paths(b) = {p \in Paths(a) : \A i \in 1..Len(p) : p[i] # HumanKey}
  /\ \A p \in Paths(b) :
       LET x == At(a, p)
           y == At(b, p)
       IN  /\ y.t = x.t
           /\ x.t = "map" => KeysOf(y) = SelectSeq(KeysOf(x), LAMBDA k : k # HumanKey)
           /\ x.t = "seq" => Len(y.xs) = Len(x.xs)
           /\ x.t \notin {"map", "seq"} => y = x

\* C27: the stripped tree holds no reserved key at any depth and is the input
\* but for the reserved keys; stripping it again changes nothing; and the
\* conversion without comment preservation gives the stripped input whatever
\* the comments.
C27_StripProperties ==
  /\ pc = "stripped" =>
       /\ ~HasReservedKey(plain)
       /\ SameButReserved(merged, plain)
       /\ strip_human_fields(plain) = plain
  /\ pc = "converted" =>
       /\ ~HasReservedKey(plain)
       /\ SameButReserved(merged, plain)

\* C27 witness: reserved keys at the root and in a mapping that is a sequence
\* item have been stripped.
C27_Witness ==
  /\ pc = "stripped"
  /\ \E p \in Paths(merged) :
       /\ Len(p) >= 2
       /\ p[Len(p)] = HumanKey
       /\ \E i \in 1..(Len(p) - 1) : p[i] = <<"0">>
  /\ HasHumanEntry(merged)
  /\ ~HasReservedKey(plain)

\* C28: the convert command given more than one input and an --output that
\* is an existing file converts nothing and exits with status 2; no two
\* different inputs are written to the same file.
C28_MultipleNeedDirectory ==
  (pc \in {"cv_run", "cv_exit"} /\ Len(cmd.inputs) > 1 /\ IsFile(InitialFs, cmd.output)) =>
    /\ written = <<>>
    /\ disk = InitialFs
    /\ pc = "cv_exit" => exit_code = 2
    /\ \A i, j \in 1..Len(written) :
         (written[i][2] = written[j][2] /\ written[i][2] # Stdout)
           => written[i][1] = written[j][1]

\* The loop heads of parse_mapping and parse_list.
AtLoopHead(i) == inst[i].ctl.k \in {"map", "list"}

\* A step of invocation 1 that starts at a loop head ends with the cursor
\* further on, or with the loop left.
LoopAdvances ==
  (pc = "alone" /\ inst[1].stage = "running" /\ AtLoopHead(1) /\ inst'[1] # inst[1]) =>
    (heap'[1].pos > heap[1].pos \/ inst'[1].ctl.k \in {"ret", "done"})

\* The cursor is a position of the line list, or just after its end.
CursorInRange ==
  (pc = "alone" /\ inst[1].stage \in {"running", "done"}) =>
    heap[1].pos \in 0..Len(heap[1].lines)

\* While invocation 1 is running, the step of parse changes its control
\* point or its cursor: there is a step to take.
StepPossible ==
  (pc = "alone" /\ inst[1].stage = "running") =>
    LET m == Machine(inst[1].ctl, inst[1].stack, heap[1].pos)
    IN  ParserStep(heap[1].lines, m) # m

\* C29: parse returns on every text; each pass of the loops of parse_mapping
\* and parse_list moves the cursor on or leaves the loop (so the restore in
\* parse_pair never puts it back on or before the key line); and the cursor
\* stays within 0..len(lines).
C29_Terminates ==
  /\ (pc = "alone") ~> (inst[1].stage = "done")
  /\ [][LoopAdvances]_vars
  /\ []CursorInRange
  /\ []StepPossible

\* C29 witness: after the key line `b:` the empty line was skipped, the next
\* line was found at the level of the key, and the cursor was put back just
\* after the key line, with b: Null in the mapping.
C29_Witness ==
  /\ pc = "alone"
  /\ inst[1].stage = "running"
  /\ heap[1].lines = << <<"b", ":">>, <<>>, <<"a", ":", " ", "1">> >>
  /\ inst[1].ctl = CMap(0, <<Entry(<<"b">>, VNull)>>)
  /\ heap[1].pos = 1

\* C30: in the object printed by validate --json, "valid" is true iff every
\* entry of "files" has "valid" true, and iff the exit status is 0.
C30_JsonValidAgrees ==
  (pc = "cli_exit" /\ json_output) =>
    /\ Len(printed.files) = Len(files)
    /\ printed.valid <=> \A i \in 1..Len(printed.files) : printed.files[i].valid
    /\ printed.valid <=> exit_code = 0

====
